---------------------------- MODULE Spec2Model ----------------------------
(***************************************************************************)
(* Model of the leadership report generator: trait_scores.py (_to_numeric, *)
(* aggregate_eight_scores, split_radar_groups), ppt_builder.py (the shape  *)
(* helpers and build_report_pptx, block by block), openai_api.py (_chat    *)
(* and generate_report under its backoff decorator) and app.py (main).     *)
(* Spec runs the single functions, SpecBuild runs build_report_pptx and    *)
(* SpecApp runs main and generate_report; FairSpecApp adds the fairness    *)
(* under which termination is checked.                                     *)
(*                                                                         *)
(* Python values are modelled as follows.                                  *)
(*   - a rating is a record [type, n, s]: type is the Python type name,    *)
(*     n the number (an int as itself, a float in tenths, so 2.5 is 25),   *)
(*     s the text of a str;                                                *)
(*   - a str is a TLA+ string, a list is a sequence, a dict is the         *)
(*     sequence of its <<key, value>> items in insertion order (the input) *)
(*     or a function (the lower-cased look-up table norm);                 *)
(*   - a float rounded to 2 decimals is the integer number of hundredths   *)
(*     (1.67 is 167);                                                      *)
(*   - the outcome of a call is [kind |-> "return", value |-> v] or        *)
(*     [kind |-> "raise", exc |-> type, msg |-> text, arg |-> value].      *)
(***************************************************************************)
EXTENDS Integers, Sequences, FiniteSets, TLC

VARIABLES
    call,      \* the function under call: its name
    args,      \* the argument of the call
    pc,        \* "ready" before the call, "done" after it; within
               \* build_report_pptx the block that runs next
    result,    \* the outcome of the call (NoResult before the call)
    prs,       \* build_report_pptx: the presentation in memory, a sequence
               \* of slides, each the sequence of its shapes (PyNone when
               \* there is none)
    files,     \* the files: the template, the document at output_path and
               \* the paths of the chart images that exist
    env,       \* the environment: whether OPENAI_API_KEY is set
    tries,     \* generate_report: the tries its decorator has started
    msgs,      \* generate_report: the messages of the try that runs
    assistant_text,  \* generate_report: the reply of the try that runs
    frame,     \* main: gpt_json, expanded, bar_scores and the exception
               \* its handler has caught
    log,       \* the calls made so far, in order, each with its outcome
    shown      \* main: what the page shows, in order

buildVars == <<prs, files>>

appVars == <<env, tries, msgs, assistant_text, frame, log, shown>>

vars ==
    <<call, args, pc, result, prs, files, env, tries, msgs, assistant_text,
      frame, log, shown>>

(***************************************************************************)
(* Bounds of the enumerated inputs.                                        *)
(***************************************************************************)
\* the integers tried as ratings are -MaxInt..MaxInt
MaxInt == 6

(***************************************************************************)
(* Python outcomes.                                                        *)
(***************************************************************************)
NoResult == [kind |-> "none"]
NoFile == [kind |-> "no file"]
NoFiles == [template |-> NoFile, output |-> NoFile, images |-> {}]
Return(v) == [kind |-> "return", value |-> v]
Raise(e, m, a) == [kind |-> "raise", exc |-> e, msg |-> m, arg |-> a]

PyInt(i) == [type |-> "int", n |-> i, s |-> ""]
PyFloat(tenths) == [type |-> "float", n |-> tenths, s |-> ""]
PyStr(t) == [type |-> "str", n |-> 0, s |-> t]
PyNone == [type |-> "NoneType", n |-> 0, s |-> ""]

\* the locals of main before they are bound
NoFrame ==
    [gpt_json |-> "", expanded |-> <<>>, bar_scores |-> PyNone,
     exc |-> NoResult]

\* nothing of main or generate_report has run
AppIdle ==
    /\ env = [api_key |-> FALSE]
    /\ tries = 0
    /\ msgs = <<>>
    /\ assistant_text = ""
    /\ frame = NoFrame
    /\ log = <<>>
    /\ shown = <<>>

(***************************************************************************)
(* str.lower() and str.strip(), character by character.                    *)
(***************************************************************************)
UpperCase == <<"A","B","C","D","E","F","G","H","I","J","K","L","M",
               "N","O","P","Q","R","S","T","U","V","W","X","Y","Z">>
LowerCase == <<"a","b","c","d","e","f","g","h","i","j","k","l","m",
               "n","o","p","q","r","s","t","u","v","w","x","y","z">>
Whitespace == {" ", "\t", "\n"}

CharAt(str, i) == SubSeq(str, i, i)

\* the lower-case letter of each upper-case letter
LowerOf == [c \in {UpperCase[i] : i \in 1..26} |->
               LowerCase[CHOOSE i \in 1..26 : UpperCase[i] = c]]

LowerChar(c) == IF c \in DOMAIN LowerOf THEN LowerOf[c] ELSE c

\* the lower-cased characters of str from position i on
RECURSIVE LowerFrom(_, _)
LowerFrom(str, i) ==
    IF i > Len(str) THEN ""
    ELSE LowerChar(CharAt(str, i)) \o LowerFrom(str, i + 1)

lower(str) == LowerFrom(str, 1)

UpperOf == [c \in {LowerCase[i] : i \in 1..26} |->
               UpperCase[CHOOSE i \in 1..26 : LowerCase[i] = c]]

UpperChar(c) == IF c \in DOMAIN UpperOf THEN UpperOf[c] ELSE c

\* the upper-cased characters of str from position i on
RECURSIVE UpperFrom(_, _)
UpperFrom(str, i) ==
    IF i > Len(str) THEN ""
    ELSE UpperChar(CharAt(str, i)) \o UpperFrom(str, i + 1)

upper(str) == UpperFrom(str, 1)

RECURSIVE lstrip(_)
lstrip(str) ==
    IF Len(str) > 0 /\ CharAt(str, 1) \in Whitespace
    THEN lstrip(SubSeq(str, 2, Len(str)))
    ELSE str

RECURSIVE rstrip(_)
rstrip(str) ==
    IF Len(str) > 0 /\ CharAt(str, Len(str)) \in Whitespace
    THEN rstrip(SubSeq(str, 1, Len(str) - 1))
    ELSE str

strip(str) == rstrip(lstrip(str))

(***************************************************************************)
(* int(val): a float is truncated toward zero.                             *)
(***************************************************************************)
int(val) ==
    IF val.type = "int" THEN val.n
    ELSE IF val.n >= 0 THEN val.n \div 10 ELSE -((-val.n) \div 10)

(***************************************************************************)
(* Normalisation helpers.                                                  *)
(***************************************************************************)
\* _SCALE_MAP with the values of two labels exchanged
_SCALE_MAP_Exchanged ==
    "below" :> 1 @@ "developing" :> 2 @@ "hits" :> 4 @@ "good" :> 3 @@
    "strong" :> 5

_SCALE_MAP ==
    "below" :> 1 @@ "developing" :> 2 @@ "hits" :> 3 @@ "good" :> 4 @@
    "strong" :> 5

\* _to_numeric clamping a number into 1..5 instead of rejecting it
_to_numeric_Clamping(val) ==
    IF val.type \in {"int", "float"}
    THEN Return(IF int(val) < 1 THEN 1 ELSE IF int(val) > 5 THEN 5
                ELSE int(val))
    ELSE IF val.type = "str" /\ lower(strip(val.s)) \in DOMAIN _SCALE_MAP
    THEN Return(_SCALE_MAP[lower(strip(val.s))])
    ELSE Raise("ValueError", "Unsupported rating value", val)

_to_numeric(val) ==
    IF val.type \in {"int", "float"} /\ 1 <= int(val) /\ int(val) <= 5
    THEN Return(int(val))
    ELSE IF val.type = "str" /\ lower(strip(val.s)) \in DOMAIN _SCALE_MAP
    THEN Return(_SCALE_MAP[lower(strip(val.s))])
    ELSE Raise("ValueError", "Unsupported rating value", val)

(***************************************************************************)
(* The inputs of _to_numeric that are tried.                               *)
(***************************************************************************)
Labels == <<"Below", "Developing", "Hits", "Good", "Strong">>

RatingStrings ==
    {Labels[i] : i \in 1..5} \cup
    {"below", "DEVELOPING", "hITS", "good", "STRONG", " Strong ", "Good\n",
     "", "   ", "excellent", "stron", "5", "hits!"}

RatingFloats == {-5, 5, 9, 10, 25, 30, 50, 59, 60, 65}

RatingValues ==
    {PyInt(i) : i \in -MaxInt..MaxInt} \cup
    {PyFloat(t) : t \in RatingFloats} \cup
    {PyStr(t) : t \in RatingStrings} \cup {PyNone}

(***************************************************************************)
(* Trait -> group mappings.  A dict is iterated in insertion order, so     *)
(* _GROUP_MAP is the sequence of its <<group, traits>> items.              *)
(***************************************************************************)
_GROUP_MAP == <<
    <<"purpose energy", <<"mission", "drive", "agency">> >>,
    <<"intellectual energy", <<"judgment", "incisiveness", "curiosity">> >>,
    <<"emotional energy", <<"positivity", "resilience", "growth mindset">> >>,
    <<"people energy",
      <<"compelling impact", "connection", "environmental insight">> >>,
    <<"performance impact",
      <<"achieves sustainable impact", "creates focus",
        "orchestrates delivery">> >>,
    <<"strategic framing",
      <<"frames complexity", "identifies new possibilities",
        "generates solutions">> >>,
    <<"mobilisation",
      <<"inspires people", "drives culture", "grows self and others">> >>,
    <<"powerful relationships",
      <<"aligns stakeholders", "models collaboration", "builds teams">> >> >>

_RADAR1_TRAITS == <<
    "mission", "drive", "agency",
    "incisiveness", "curiosity",
    "positivity", "resilience", "growth mindset",
    "compelling impact", "connection", "environmental insight">>

_RADAR2_TRAITS == <<
    "achieves sustainable impact", "creates focus", "orchestrates delivery",
    "frames complexity", "identifies new possibilities", "generates solutions",
    "inspires people", "drives culture", "grows self and others",
    "aligns stakeholders", "models collaboration", "builds teams">>

TRAIT_24 == <<
    "mission", "drive", "agency",
    "judgment", "incisiveness", "curiosity",
    "positivity", "resilience", "growth mindset",
    "compelling impact", "connection", "environmental insight",
    "achieves sustainable impact", "creates focus", "orchestrates delivery",
    "frames complexity", "identifies new possibilities", "generates solutions",
    "inspires people", "drives culture", "grows self and others",
    "aligns stakeholders", "models collaboration", "builds teams">>

\* k.lower() for a key k of the rating set: lower(k), computed once for each
\* of the trait names in the two spellings the rating sets use
FormKeys ==
    {TRAIT_24[i] : i \in 1..Len(TRAIT_24)} \cup
    {upper(TRAIT_24[i]) : i \in 1..Len(TRAIT_24)}

LowerOfKey == [k \in FormKeys |-> lower(k)]

\* the key looked up as it is written
KeyLower_AsWritten(k) == k

KeyLower(k) == IF k \in FormKeys THEN LowerOfKey[k] ELSE lower(k)

(***************************************************************************)
(* dict and list helpers.                                                  *)
(***************************************************************************)
EmptyDict == <<>>

\* d[k] = v
SetItem(d, k, v) == [x \in DOMAIN d \cup {k} |-> IF x = k THEN v ELSE d[x]]

Min(S) == CHOOSE x \in S : \A y \in S : x <= y

RECURSIVE sum(_)
sum(values) ==
    IF Len(values) = 0 THEN 0 ELSE Head(values) + sum(Tail(values))

\* statistics.mean: the exact quotient, kept as a fraction
mean(values) == [num |-> sum(values), den |-> Len(values)]

\* round2 cutting the digits after the second decimal off
round2_Truncating(x) == (100 * x.num) \div x.den

\* round(x, 2) of a non-negative x, in hundredths; a tie goes to the even
\* neighbour
round2(x) ==
    LET q == (100 * x.num) \div x.den
        r == (100 * x.num) % x.den
    IN  IF 2 * r < x.den THEN q
        ELSE IF 2 * r > x.den THEN q + 1
        ELSE IF q % 2 = 0 THEN q ELSE q + 1

(***************************************************************************)
(* norm = {k.lower(): _to_numeric(v) for k, v in detailed_ratings.items()} *)
(* The first value that _to_numeric rejects ends the comprehension.        *)
(***************************************************************************)
RECURSIVE NormFrom(_, _, _)
NormFrom(items, i, acc) ==
    IF i > Len(items) THEN Return(acc)
    ELSE LET r == _to_numeric(items[i][2])
         IN  IF r.kind = "raise" THEN r
             ELSE NormFrom(items, i + 1,
                           SetItem(acc, KeyLower(items[i][1]), r.value))

norm(detailed_ratings) == NormFrom(detailed_ratings, 1, EmptyDict)

(***************************************************************************)
(* Public helpers.                                                         *)
(***************************************************************************)
\* the places of the list whose trait has no entry in the look-up table
MissingIn(nrm, traits) == {i \in 1..Len(traits) : traits[i] \notin DOMAIN nrm}

\* AggregateFrom with the error naming the group instead of the trait
RECURSIVE AggregateFrom_NamingGroup(_, _, _)
AggregateFrom_NamingGroup(nrm, g, scores) ==
    IF g > Len(_GROUP_MAP) THEN Return(scores)
    ELSE LET group == _GROUP_MAP[g][1]
             traits == _GROUP_MAP[g][2]
         IN  IF MissingIn(nrm, traits) # {}
             THEN Raise("ValueError", "Missing rating for trait", group)
             ELSE LET values == [t \in 1..Len(traits) |-> nrm[traits[t]]]
                  IN  AggregateFrom_NamingGroup(nrm, g + 1,
                          SetItem(scores, group, round2(mean(values))))

\* AggregateFrom averaging the traits that are there, and raising only when
\* none of the group is
RECURSIVE AggregateFrom_IgnoringMissing(_, _, _)
AggregateFrom_IgnoringMissing(nrm, g, scores) ==
    IF g > Len(_GROUP_MAP) THEN Return(scores)
    ELSE LET group == _GROUP_MAP[g][1]
             traits == _GROUP_MAP[g][2]
             there == SelectSeq(traits, LAMBDA t : t \in DOMAIN nrm)
         IN  IF Len(there) = 0
             THEN Raise("ValueError", "Missing rating for trait", traits[1])
             ELSE LET values == [t \in 1..Len(there) |-> nrm[there[t]]]
                  IN  AggregateFrom_IgnoringMissing(nrm, g + 1,
                          SetItem(scores, group, round2(mean(values))))

\* AggregateFrom leaving out the group that has a missing trait
RECURSIVE AggregateFrom_SkippingGroup(_, _, _)
AggregateFrom_SkippingGroup(nrm, g, scores) ==
    IF g > Len(_GROUP_MAP) THEN Return(scores)
    ELSE LET group == _GROUP_MAP[g][1]
             traits == _GROUP_MAP[g][2]
         IN  IF MissingIn(nrm, traits) # {}
             THEN AggregateFrom_SkippingGroup(nrm, g + 1, scores)
             ELSE LET values == [t \in 1..Len(traits) |-> nrm[traits[t]]]
                  IN  AggregateFrom_SkippingGroup(nrm, g + 1,
                          SetItem(scores, group, round2(mean(values))))

\* one pass of the loop over _GROUP_MAP.items(), then the rest
RECURSIVE AggregateFrom(_, _, _)
AggregateFrom(nrm, g, scores) ==
    IF g > Len(_GROUP_MAP) THEN Return(scores)
    ELSE LET group == _GROUP_MAP[g][1]
             traits == _GROUP_MAP[g][2]
         IN  IF MissingIn(nrm, traits) # {}
             THEN Raise("ValueError", "Missing rating for trait",
                        traits[Min(MissingIn(nrm, traits))])
             ELSE LET values == [t \in 1..Len(traits) |-> nrm[traits[t]]]
                  IN  AggregateFrom(nrm, g + 1,
                          SetItem(scores, group, round2(mean(values))))

aggregate_eight_scores(detailed_ratings) ==
    LET n == norm(detailed_ratings)
    IN  IF n.kind = "raise" THEN n
        ELSE AggregateFrom(n.value, 1, EmptyDict)

\* RadarDict with the items in the reverse of the order of the list
RadarDict_Reversed(nrm, traits) ==
    IF MissingIn(nrm, traits) # {}
    THEN Raise("KeyError", "", traits[Min(MissingIn(nrm, traits))])
    ELSE Return([t \in 1..Len(traits) |->
                    <<traits[Len(traits) + 1 - t],
                      nrm[traits[Len(traits) + 1 - t]]>>])

\* {trait: norm[trait] for trait in traits}: the items in order, or the
\* KeyError of the first look-up that fails
RadarDict(nrm, traits) ==
    IF MissingIn(nrm, traits) # {}
    THEN Raise("KeyError", "", traits[Min(MissingIn(nrm, traits))])
    ELSE Return([t \in 1..Len(traits) |-> <<traits[t], nrm[traits[t]]>>])

split_radar_groups(detailed_ratings) ==
    LET n == norm(detailed_ratings)
    IN  IF n.kind = "raise" THEN n
        ELSE LET radar1 == RadarDict(n.value, _RADAR1_TRAITS)
                 radar2 == RadarDict(n.value, _RADAR2_TRAITS)
             IN  IF radar1.kind = "raise" THEN radar1
                 ELSE IF radar2.kind = "raise" THEN radar2
                 ELSE Return(<<radar1.value, radar2.value>>)

(***************************************************************************)
(* The rating sets that are tried.  The three traits of one group (the     *)
(* group under test) are either all rated, each with any of RatedValues,   *)
(* or each of them is rated 2, rated out of range or left out; every other *)
(* trait has one common rating 1..5, or all of them are left out.  The     *)
(* keys of the group under test are in lower case, and in the second case  *)
(* also in upper case.  The items are in the order in which the form of    *)
(* app.py fills the dict.                                                  *)
(***************************************************************************)
Absent == [type |-> "absent", n |-> 0, s |-> ""]

RatedValues == {PyInt(i) : i \in 1..5} \cup {PyFloat(25), PyStr(" Good ")}

DefectValues == {PyInt(2), PyInt(MaxInt), Absent}

FormValues == [1..3 -> RatedValues] \cup [1..3 -> DefectValues]

BaseValues == {PyInt(i) : i \in 1..5} \cup {Absent}

KeyStyles == {"lower", "upper"}

\* the group (its position in _GROUP_MAP) and the place in it of each trait
GroupOf ==
    [t \in {TRAIT_24[i] : i \in 1..Len(TRAIT_24)} |->
        CHOOSE g \in 1..Len(_GROUP_MAP) :
            \E j \in 1..3 : _GROUP_MAP[g][2][j] = t]

PlaceOf ==
    [t \in {TRAIT_24[i] : i \in 1..Len(TRAIT_24)} |->
        CHOOSE j \in 1..3 : _GROUP_MAP[GroupOf[t]][2][j] = t]

IsPresent(item) == item[2] # Absent

Form(g, base, v, style) ==
    SelectSeq([i \in 1..Len(TRAIT_24) |->
                  IF GroupOf[TRAIT_24[i]] # g THEN <<TRAIT_24[i], base>>
                  ELSE <<IF style = "upper" THEN upper(TRAIT_24[i])
                         ELSE TRAIT_24[i],
                         v[PlaceOf[TRAIT_24[i]]]>>],
              IsPresent)

(***************************************************************************)
(* ppt_builder.py: the helpers that resize a bar and move a marker.  A     *)
(* shape is a record of its name, has_text_frame, text, image and geometry  *)
(* (in EMU); None is PyNone.  A helper changes the shape it is given in place: *)
(* the operator gives the shape as it is after the call.  A score is a     *)
(* whole number of hundredths (a bar score 1.67 is 167, a max_score 5.0 is *)
(* 500, a percentile 41 is 4100).                                          *)
(***************************************************************************)
Shape(name, has_text_frame, width) ==
    [name |-> name, has_text_frame |-> has_text_frame, text |-> "",
     image |-> "", left |-> 457200, top |-> 914400, width |-> width,
     height |-> 228600]

\* Inches(x).emu, x in hundredths of an inch
Inches(hundredths) == hundredths * 9144

\* the whole part of w * n / d, for 0 <= n and 0 < d, without a product
\* beyond 32 bits
MulDiv(w, n, d) == (w \div d) * n + ((w % d) * n) \div d

\* the <<max_width_emu, score, max_score>> for which the double
\* max_width_emu * (score / max_score) falls just below the whole number
\* that the exact product is, because the quotient has been rounded
RoundedBelow ==
    {<<5029200, 4100, 10000>>, <<5029200, 5700, 10000>>,
     <<5029200, 6900, 10000>>, <<5029200, 8200, 10000>>,
     <<914400, 5700, 10000>>}

\* int(max_width_emu * (score / max_score))
ScaledWidth(max_width_emu, score, max_score) ==
    MulDiv(max_width_emu, score, max_score)
        - (IF <<max_width_emu, score, max_score>> \in RoundedBelow
           THEN 1 ELSE 0)

\* _resize_bar scaling the width the bar has now
_resize_bar_Relative(shape, score, max_score, max_width_emu) ==
    IF shape = PyNone \/ shape.has_text_frame THEN shape
    ELSE [shape EXCEPT !.width = ScaledWidth(shape.width, score, max_score)]

\* _resize_bar keeping the right edge of the bar where it is
_resize_bar_FromRight(shape, score, max_score, max_width_emu) ==
    IF shape = PyNone \/ shape.has_text_frame THEN shape
    ELSE LET w == ScaledWidth(max_width_emu, score, max_score)
         IN  [shape EXCEPT !.width = w, !.left = @ + shape.width - w]

\* lines 35-39
_resize_bar(shape, score, max_score, max_width_emu) ==
    IF shape = PyNone \/ shape.has_text_frame THEN shape
    ELSE [shape EXCEPT !.width = ScaledWidth(max_width_emu, score, max_score)]

\* int(x) of the quotient n / d, d > 0: toward zero
TruncDiv(n, d) == IF n >= 0 THEN n \div d ELSE -((-n) \div d)

\* _reposition_ball taking the rating as the number of fifths of the track
_reposition_ball_Fifths(ball, rating, track_left_emu, track_right_emu) ==
    IF ball = PyNone THEN ball
    ELSE [ball EXCEPT !.left =
             track_left_emu
               + TruncDiv((track_right_emu - track_left_emu) * rating, 5)]

\* frac = (rating - 1) / 4 is exact in a double, and so is the product
_reposition_ball(ball, rating, track_left_emu, track_right_emu) ==
    IF ball = PyNone THEN ball
    ELSE [ball EXCEPT !.left =
             track_left_emu
               + TruncDiv((track_right_emu - track_left_emu) * (rating - 1),
                          4)]

(***************************************************************************)
(* The arguments of the two helpers that are tried.                        *)
(***************************************************************************)
\* the 8 energy bars are scored out of 5.0, with the means of three ratings
\* and 0; the reasoning bars out of 100.0, with 0..100
BarScores ==
    {<<h, 500>> : h \in {0, 100, 133, 167, 200, 233, 267, 300, 333, 367,
                         400, 433, 467, 500}} \cup
    {<<100 * p, 10000>> : p \in 0..100}

BarWidths == {Inches(550), Inches(100)}

BarShapes ==
    {PyNone, Shape("label_verbal", TRUE, 1828800)} \cup
    {Shape("bar_purpose", FALSE, w) : w \in {0, 1000, Inches(550)}}

Tracks == {<<Inches(120), Inches(650)>>, <<0, 7>>, <<10, 13>>, <<100, 100>>}

Balls == {PyNone, Shape("ball_fit", FALSE, 228600)}

(***************************************************************************)
(* The calls.                                                              *)
(***************************************************************************)
InitToNumeric ==
    /\ call = "_to_numeric"
    /\ args \in RatingValues

InitForm ==
    /\ call \in {"aggregate_eight_scores", "split_radar_groups"}
    /\ \E g \in 1..Len(_GROUP_MAP), base \in BaseValues, v \in FormValues :
          \E style \in IF v \in [1..3 -> DefectValues] THEN KeyStyles
                        ELSE {"lower"} :
            args = Form(g, base, v, style)

InitResizeBar ==
    /\ call = "_resize_bar"
    /\ \E shape \in BarShapes, sc \in BarScores, w \in BarWidths :
          args = [shape |-> shape, score |-> sc[1], max_score |-> sc[2],
                  max_width_emu |-> w]

InitRepositionBall ==
    /\ call = "_reposition_ball"
    /\ \E ball \in Balls, rating \in 0..MaxInt, track \in Tracks :
          args = [ball |-> ball, rating |-> rating,
                  track_left_emu |-> track[1], track_right_emu |-> track[2]]

Init ==
    /\ InitToNumeric \/ InitForm \/ InitResizeBar \/ InitRepositionBall
    /\ pc = "ready"
    /\ result = NoResult
    /\ prs = PyNone
    /\ files = NoFiles
    /\ AppIdle

CallToNumeric ==
    /\ pc = "ready"
    /\ call = "_to_numeric"
    /\ result' = _to_numeric(args)
    /\ pc' = "done"
    /\ UNCHANGED <<call, args, buildVars, appVars>>

CallAggregate ==
    /\ pc = "ready"
    /\ call = "aggregate_eight_scores"
    /\ result' = aggregate_eight_scores(args)
    /\ pc' = "done"
    /\ UNCHANGED <<call, args, buildVars, appVars>>

CallSplit ==
    /\ pc = "ready"
    /\ call = "split_radar_groups"
    /\ result' = split_radar_groups(args)
    /\ pc' = "done"
    /\ UNCHANGED <<call, args, buildVars, appVars>>

CallResizeBar ==
    /\ pc = "ready"
    /\ call = "_resize_bar"
    /\ result' = Return(_resize_bar(args.shape, args.score, args.max_score,
                                    args.max_width_emu))
    /\ pc' = "done"
    /\ UNCHANGED <<call, args, buildVars, appVars>>

\* the same bar is resized once more, with the same score
CallResizeBarAgain ==
    /\ pc = "done"
    /\ call = "_resize_bar"
    /\ result' = Return(_resize_bar(result.value, args.score, args.max_score,
                                    args.max_width_emu))
    /\ pc' = "again"
    /\ UNCHANGED <<call, args, buildVars, appVars>>

CallRepositionBall ==
    /\ pc = "ready"
    /\ call = "_reposition_ball"
    /\ result' = Return(_reposition_ball(args.ball, args.rating,
                                         args.track_left_emu,
                                         args.track_right_emu))
    /\ pc' = "done"
    /\ UNCHANGED <<call, args, buildVars, appVars>>

Next ==
    \/ CallToNumeric \/ CallAggregate \/ CallSplit
    \/ CallResizeBar \/ CallResizeBarAgain \/ CallRepositionBall

Spec == Init /\ [][Next]_vars

(***************************************************************************)
(* ppt_builder.py: build_report_pptx.  A presentation is the sequence of   *)
(* its slides and a slide the sequence of its shapes, in document order.   *)
(* A dict argument is Dict of the sequence of its items <<key, value>>, a   *)
(* path is a PyStr, a percentile a PyInt, a bar score a Score and an       *)
(* argument left out is PyNone.                                            *)
(***************************************************************************)
Dict(items) == [type |-> "dict", items |-> items]

\* the float h / 100
Score(h) == [type |-> "float", n |-> h, s |-> ""]

\* a name that is not found is taken for the first shape of the slide
Place_OrFirst(slide, target) ==
    IF \E i \in 1..Len(slide) : slide[i].name = target
    THEN Min({i \in 1..Len(slide) : slide[i].name = target})
    ELSE IF Len(slide) > 0 THEN 1 ELSE 0

\* the place of the first shape of the slide named target, 0 if there is none
Place(slide, target) ==
    IF \E i \in 1..Len(slide) : slide[i].name = target
    THEN Min({i \in 1..Len(slide) : slide[i].name = target})
    ELSE 0

_safe_shape(slide, target) ==
    IF Place(slide, target) = 0 THEN PyNone ELSE slide[Place(slide, target)]

\* the slide once the shape found under target has become shape
Put(slide, target, shape) ==
    IF Place(slide, target) = 0 THEN slide
    ELSE [slide EXCEPT ![Place(slide, target)] = shape]

_set_text(shape, new_text) ==
    IF shape = PyNone \/ ~shape.has_text_frame THEN shape
    ELSE [shape EXCEPT !.text = new_text]

\* key in d, d the items of a dict
HasKey(d, key) == \E i \in 1..Len(d) : d[i][1] = key

\* d.get(key, default)
Get(d, key, default) ==
    IF HasKey(d, key)
    THEN d[Min({i \in 1..Len(d) : d[i][1] = key})][2]
    ELSE default

\* the truth value of an optional dict or path
Truthy(v) ==
    /\ v.type # "NoneType"
    /\ v.type = "dict" => v.items # <<>>
    /\ v.type = "str" => v.s # ""

\* list[i][key], i counted from 0
Item(list, i, key) ==
    IF i + 1 > Len(list)
    THEN Raise("IndexError", "list index out of range", PyNone)
    ELSE IF key \notin DOMAIN list[i + 1]
    THEN Raise("KeyError", key, PyNone)
    ELSE Return(list[i + 1][key])

\* a run of _set_text(_safe_shape(slide, name), text) statements, each
\* given as <<name, the outcome of evaluating text>>
RECURSIVE SetTexts(_, _)
SetTexts(slide, writes) ==
    IF writes = <<>> THEN Return(slide)
    ELSE LET name == Head(writes)[1]
             text == Head(writes)[2]
         IN  IF text.kind = "raise" THEN text
             ELSE SetTexts(Put(slide, name,
                               _set_text(_safe_shape(slide, name),
                                         text.value)),
                           Tail(writes))

Digits == <<"1", "2", "3">>

\* prs.slides[idx]
NoSlide == Raise("IndexError", "slide index out of range", PyNone)

\* the presentation once slide idx (counted from 0) has become slide
WithSlide(doc, idx, slide) == Return([doc EXCEPT ![idx + 1] = slide])

\* lines 90-92
Slide1(doc, a) ==
    IF Len(doc) < 1 THEN NoSlide
    ELSE LET s1 == SetTexts(doc[1],
                     <<<<"candidate_name", Return(a.candidate_name)>>,
                       <<"role_company", Return(a.role_and_company)>>>>)
         IN  WithSlide(doc, 0, s1.value)

Slide3Loop(a, i) ==
    <<<<"strength_" \o Digits[i + 1] \o "_title",
        Item(a.strengths, i, "title")>>,
      <<"strength_" \o Digits[i + 1] \o "_body",
        Item(a.strengths, i, "paragraph")>>,
      <<"dev_" \o Digits[i + 1] \o "_title",
        Item(a.development_areas, i, "title")>>,
      <<"dev_" \o Digits[i + 1] \o "_body",
        Item(a.development_areas, i, "paragraph")>>>>

BallKeys ==
    <<<<"ball_fit", "Fit for Role">>, <<"ball_cap", "Capabilities">>,
      <<"ball_pot", "Potential">>,
      <<"ball_future", "Future Considerations">>>>

RECURSIVE MoveBalls(_, _, _)
MoveBalls(slide, summary_ratings, n) ==
    IF n = 0 THEN slide
    ELSE LET s == MoveBalls(slide, summary_ratings, n - 1)
             name == BallKeys[n][1]
         IN  Put(s, name,
                 _reposition_ball(_safe_shape(s, name),
                                  Get(summary_ratings.items, BallKeys[n][2],
                                      3),
                                  Inches(120), Inches(650)))

\* lines 97-114
Slide3(doc, a) ==
    IF Len(doc) < 3 THEN NoSlide
    ELSE LET s3 == SetTexts(doc[3],
                     <<<<"personal_profile", Return(a.personal_profile)>>>>
                     \o Slide3Loop(a, 0) \o Slide3Loop(a, 1)
                     \o Slide3Loop(a, 2)
                     \o <<<<"future_considerations",
                            Return(a.future_considerations)>>>>)
         IN  IF s3.kind = "raise" THEN s3
             ELSE IF Truthy(a.summary_ratings)
             THEN WithSlide(doc, 2,
                            MoveBalls(s3.value, a.summary_ratings, 4))
             ELSE WithSlide(doc, 2, s3.value)

Slide4Loop(a, i) ==
    <<<<"pd_" \o Digits[i + 1] \o "_title",
        Item(a.personal_development, i, "title")>>,
      <<"pd_" \o Digits[i + 1] \o "_body",
        Item(a.personal_development, i, "paragraph")>>,
      <<"org_" \o Digits[i + 1] \o "_title",
        Item(a.org_support, i, "title")>>,
      <<"org_" \o Digits[i + 1] \o "_body",
        Item(a.org_support, i, "paragraph")>>>>

\* lines 119-124
Slide4(doc, a) ==
    IF Len(doc) < 4 THEN NoSlide
    ELSE LET s4 == SetTexts(doc[4], Slide4Loop(a, 0) \o Slide4Loop(a, 1))
         IN  IF s4.kind = "raise" THEN s4
             ELSE WithSlide(doc, 3, s4.value)

name_map ==
    <<<<"purpose energy", "bar_purpose">>,
      <<"intellectual energy", "bar_intellectual">>,
      <<"emotional energy", "bar_emotional">>,
      <<"people energy", "bar_people">>,
      <<"performance impact", "bar_performance">>,
      <<"strategic framing", "bar_strategic">>,
      <<"mobilisation", "bar_mobilisation">>,
      <<"powerful relationships", "bar_relationships">>>>

\* score / max_score of a score that is no number
BadScore == Raise("TypeError", "unsupported operand type(s) for /", PyNone)

\* _resize_bar(_safe_shape(slide, name), score, max_score, max_width) on the
\* slide: the division is reached only by a shape that is resized
ResizeOn(slide, name, score, max_score, max_width) ==
    LET shape == _safe_shape(slide, name)
    IN  IF shape = PyNone \/ shape.has_text_frame THEN Return(slide)
        ELSE IF score.type = "NoneType" THEN BadScore
        ELSE Return(Put(slide, name,
                        _resize_bar(shape, score.n, max_score, max_width)))

RECURSIVE ResizeBars(_, _)
ResizeBars(slide, items) ==
    IF items = <<>> THEN Return(slide)
    ELSE LET label == lower(Head(items)[1])
             s == IF HasKey(name_map, label)
                  THEN ResizeOn(slide, Get(name_map, label, ""),
                                Head(items)[2], 500, Inches(550))
                  ELSE Return(slide)
         IN  IF s.kind = "raise" THEN s
             ELSE ResizeBars(s.value, Tail(items))

\* lines 129-145
Slide5(doc, a) ==
    IF ~Truthy(a.bar_scores) THEN Return(doc)
    ELSE IF Len(doc) < 5 THEN NoSlide
    ELSE LET s5 == ResizeBars(doc[5], a.bar_scores.items)
         IN  IF s5.kind = "raise" THEN s5
             ELSE WithSlide(doc, 4, s5.value)

\* the shape add_picture appends: the image at the placeholder's geometry
\* (the number python-pptx puts in its name is left out)
Picture(path, ph) ==
    [name |-> "Picture", has_text_frame |-> FALSE, text |-> "",
     image |-> path, left |-> ph.left, top |-> ph.top, width |-> ph.width,
     height |-> ph.height]

Remove(slide, i) == SubSeq(slide, 1, i - 1) \o SubSeq(slide, i + 1, Len(slide))

\* the picture is added and the placeholder is left on the slide
InsertPicture_KeepingPlaceholder(slide, target, path, images) ==
    IF Truthy(path) /\ path.s \in images /\ _safe_shape(slide, target) # PyNone
    THEN Append(slide, Picture(path.s, _safe_shape(slide, target)))
    ELSE slide

\* lines 151-155 and 157-161
InsertPicture(slide, target, path, images) ==
    IF Truthy(path) /\ path.s \in images /\ _safe_shape(slide, target) # PyNone
    THEN Remove(Append(slide, Picture(path.s, _safe_shape(slide, target))),
                Place(slide, target))
    ELSE slide

\* lines 150-161
Slide6(doc, a, images) ==
    IF Len(doc) < 6 THEN NoSlide
    ELSE WithSlide(doc, 5,
             InsertPicture(InsertPicture(doc[6], "spider_1",
                                         a.radar_chart_1_path, images),
                           "spider_2", a.radar_chart_2_path, images))

RECURSIVE ReasoningBars(_, _)
ReasoningBars(slide, items) ==
    IF items = <<>> THEN Return(slide)
    ELSE LET lname == lower(Head(items)[1])
             score == Head(items)[2]
         IN  IF score.type = "NoneType"
             THEN Raise("TypeError",
                        "float() argument must be a string or a number",
                        PyNone)
             ELSE LET s == ResizeOn(slide, "bar_" \o lname,
                                    Score(100 * score.n), 10000,
                                    Inches(550)).value
                  IN  ReasoningBars(
                          Put(s, "label_" \o lname,
                              _set_text(_safe_shape(s, "label_" \o lname),
                                        ToString(score.n) \o "%")),
                          Tail(items))

\* lines 166-172
Slide7(doc, a) ==
    IF ~Truthy(a.reasoning_scores) THEN Return(doc)
    ELSE IF Len(doc) < 7 THEN NoSlide
    ELSE LET s7 == ReasoningBars(doc[7], a.reasoning_scores.items)
         IN  IF s7.kind = "raise" THEN s7
             ELSE WithSlide(doc, 6, s7.value)

\* the file prs.save writes
Pptx(doc) == [kind |-> "pptx", slides |-> doc]

\* the document is written over the template as well as to output_path
Save_OverTemplateToo(fs, a, doc) ==
    [fs EXCEPT !.template = Pptx(doc), !.output = Pptx(doc)]

\* prs.save(str(out_path)): the file at output_path becomes the document;
\* it is the template file when the two paths are the same
Save(fs, a, doc) ==
    IF a.output_path = a.template_path
    THEN [fs EXCEPT !.template = Pptx(doc)]
    ELSE [fs EXCEPT !.output = Pptx(doc)]

\* Presentation(str(template_path))
Open(fs) ==
    IF fs.template = NoFile
    THEN Raise("PackageNotFoundError", "Package not found", PyNone)
    ELSE Return(fs.template.slides)

\* the blocks of build_report_pptx, each with the block that runs after it,
\* were the save to come right after the template is opened
StepAfter_SavingFirst ==
    [open |-> "save", save |-> "slide1", slide1 |-> "slide3",
     slide3 |-> "slide4", slide4 |-> "slide5", slide5 |-> "slide6",
     slide6 |-> "slide7", slide7 |-> "done"]

\* the blocks of build_report_pptx, each with the block that runs after it
StepAfter ==
    [open |-> "slide1", slide1 |-> "slide3", slide3 |-> "slide4",
     slide4 |-> "slide5", slide5 |-> "slide6", slide6 |-> "slide7",
     slide7 |-> "save", save |-> "done"]

\* the presentation after one of the blocks that fill a slide
Block(step, doc, a, images) ==
    CASE step = "slide1" -> Slide1(doc, a)
      [] step = "slide3" -> Slide3(doc, a)
      [] step = "slide4" -> Slide4(doc, a)
      [] step = "slide5" -> Slide5(doc, a)
      [] step = "slide6" -> Slide6(doc, a, images)
      [] step = "slide7" -> Slide7(doc, a)

\* the call from the block step on: the files and the outcome it ends with
RECURSIVE RunFrom(_, _, _, _)
RunFrom(step, doc, fs, a) ==
    IF step = "done" THEN [files |-> fs, result |-> Return(a.output_path)]
    ELSE IF step = "save"
    THEN RunFrom(StepAfter[step], doc, Save(fs, a, doc), a)
    ELSE LET r == IF step = "open" THEN Open(fs)
                  ELSE Block(step, doc, a, fs.images)
         IN  IF r.kind = "raise" THEN [files |-> fs, result |-> r]
             ELSE RunFrom(StepAfter[step], r.value, fs, a)

build_report_pptx(fs, a) == RunFrom("open", PyNone, fs, a)

(***************************************************************************)
(* The templates and arguments build_report_pptx is tried with.            *)
(***************************************************************************)
\* the most slides a template has
MaxSlides == 8

TextBox(name) == [Shape(name, TRUE, 1828800) EXCEPT !.text = "Lorem ipsum"]

\* the k-th picture placeholder of a slide, each with its own position and
\* size
Placeholder(name, k) ==
    [TextBox(name) EXCEPT !.left = k * 4572000 - 4114800,
                          !.top = 1371600 + k * 9144,
                          !.width = 3657600 + k * 91440,
                          !.height = 3200400 + k * 45720]

Names(prefix, n, suffix) == [i \in 1..n |-> prefix \o Digits[i] \o suffix]

Boxes(names) == [i \in 1..Len(names) |-> TextBox(names[i])]

Bars(names) == [i \in 1..Len(names) |-> Shape(names[i], FALSE, Inches(550))]

ReasoningNames == <<"verbal", "numerical", "abstract", "overall">>

\* the slides of the template the layout expects; slide 2 takes no content
TemplateSlides ==
    << Boxes(<<"candidate_name", "role_company">>),
       Boxes(<<"Title 1">>),
       Boxes(<<"personal_profile">>)
         \o Boxes(Names("strength_", 3, "_title"))
         \o Boxes(Names("strength_", 3, "_body"))
         \o Boxes(Names("dev_", 3, "_title"))
         \o Boxes(Names("dev_", 3, "_body"))
         \o Boxes(<<"future_considerations">>)
         \o [i \in 1..4 |-> Shape(BallKeys[i][1], FALSE, 228600)],
       Boxes(Names("pd_", 2, "_title")) \o Boxes(Names("pd_", 2, "_body"))
         \o Boxes(Names("org_", 2, "_title"))
         \o Boxes(Names("org_", 2, "_body")),
       Bars([i \in 1..8 |-> name_map[i][2]]),
       <<Placeholder("spider_1", 1), Placeholder("spider_2", 2)>>,
       Bars([i \in 1..4 |-> "bar_" \o ReasoningNames[i]])
         \o Boxes([i \in 1..4 |-> "label_" \o ReasoningNames[i]]) >>

\* the names build_report_pptx looks up
WrittenNames ==
    UNION {{TemplateSlides[i][j].name : j \in 1..Len(TemplateSlides[i])} :
             i \in {1, 3, 4, 5, 6, 7}}

\* a template of n slides; the element named e is absent from it, or is
\* there under another name
Template(n, e, how) ==
    Pptx([i \in 1..n |->
            IF i > Len(TemplateSlides) THEN <<>>
            ELSE IF how = "absent"
            THEN SelectSeq(TemplateSlides[i], LAMBDA sh : sh.name # e)
            ELSE [j \in 1..Len(TemplateSlides[i]) |->
                    IF TemplateSlides[i][j].name = e
                    THEN [TemplateSlides[i][j] EXCEPT !.name = e \o "_old"]
                    ELSE TemplateSlides[i][j]]])

CompleteTemplate == Template(Len(TemplateSlides), "", "absent")

Narrative(tag, n) ==
    [i \in 1..n |-> [title |-> tag \o " title " \o ToString(i),
                     paragraph |-> tag \o " paragraph " \o ToString(i)]]

\* the four lists of the narrative: as long as the layout needs, longer,
\* one of them too short, one entry without its paragraph
NarrativeOf(n) ==
    [strengths |-> Narrative("strength", n[1]),
     development_areas |-> Narrative("dev", n[2]),
     personal_development |-> Narrative("pd", n[3]),
     org_support |-> Narrative("org", n[4])]

GoodNarrative == NarrativeOf(<<3, 3, 2, 2>>)

Narratives ==
    {NarrativeOf(n) :
        n \in {<<3, 3, 2, 2>>, <<4, 4, 3, 3>>, <<2, 3, 2, 2>>, <<3, 2, 2, 2>>,
               <<3, 3, 1, 2>>, <<3, 3, 2, 1>>}} \cup
    {[GoodNarrative EXCEPT
        !.strengths = Narrative("strength", 2)
                        \o <<[title |-> "strength title 3"]>>]}

EightScores == <<167, 233, 300, 367, 433, 500, 100, 267>>

\* bar_scores: left out, empty, the eight means, one score that is no number
GoodBarScores ==
    Dict([i \in 1..8 |-> <<upper(name_map[i][1]), Score(EightScores[i])>>])

BarScoreDicts ==
    {PyNone, Dict(<<>>), GoodBarScores,
     Dict([i \in 1..8 |-> <<name_map[i][1],
                            IF i = 3 THEN PyNone
                            ELSE Score(EightScores[i])>>]
          \o <<<<"energy", Score(300)>>>>)}

SummaryDicts ==
    {PyNone,
     Dict(<<<<"Fit for Role", 1>>, <<"Capabilities", 5>>, <<"Potential", 2>>,
            <<"Future Considerations", 4>>>>),
     Dict(<<<<"Fit for Role", 4>>>>)}

Percentiles == <<41, 57, 69, 82>>

GoodReasoning ==
    Dict([i \in 1..4 |-> <<ReasoningNames[i], PyInt(Percentiles[i])>>])

ReasoningDicts ==
    {PyNone, GoodReasoning,
     Dict(<<<<"Verbal", PyInt(99)>>, <<"numerical", PyNone>>>>)}

\* the chart paths and the image files that exist
Charts ==
    {[radar_chart_1_path |-> PyStr("radar_1.png"),
      radar_chart_2_path |-> PyStr("radar_2.png"),
      images |-> {"radar_1.png", "radar_2.png"}],
     [radar_chart_1_path |-> PyStr("radar_1.png"),
      radar_chart_2_path |-> PyStr("radar_2.png"),
      images |-> {"radar_2.png"}],
     [radar_chart_1_path |-> PyNone, radar_chart_2_path |-> PyNone,
      images |-> {}]}

BuildArgs(narrative, bar_scores, summary_ratings, reasoning_scores, chart) ==
    [template_path |-> "template.pptx",
     output_path |-> "Executive_Report.pptx",
     candidate_name |-> "Ada Lovelace",
     role_and_company |-> "CTO, Analytical Engines",
     personal_profile |-> "profile",
     strengths |-> narrative.strengths,
     development_areas |-> narrative.development_areas,
     future_considerations |-> "future",
     personal_development |-> narrative.personal_development,
     org_support |-> narrative.org_support,
     radar_chart_1_path |-> chart.radar_chart_1_path,
     radar_chart_2_path |-> chart.radar_chart_2_path,
     bar_scores |-> bar_scores,
     summary_ratings |-> summary_ratings,
     reasoning_scores |-> reasoning_scores]

InitBuild ==
    /\ call = "build_report_pptx"
    /\ pc = "open"
    /\ result = NoResult
    /\ prs = PyNone
    /\ AppIdle
    /\ \E b \in BarScoreDicts, s \in SummaryDicts, r \in ReasoningDicts,
          c \in Charts :
          \/ \E n \in 0..MaxSlides :
                /\ args = BuildArgs(GoodNarrative, b, s, r, c)
                /\ files = [template |-> Template(n, "", "absent"),
                            output |-> NoFile, images |-> c.images]
          \/ \E nar \in Narratives :
                /\ args = BuildArgs(nar, b, s, r, c)
                /\ files = [template |-> CompleteTemplate,
                            output |-> NoFile, images |-> c.images]
          \/ \E e \in WrittenNames, how \in {"absent", "renamed"} :
                /\ b \in {PyNone, GoodBarScores}
                /\ r \in {PyNone, GoodReasoning}
                /\ args = BuildArgs(GoodNarrative, b, s, r, c)
                /\ files = [template |-> Template(Len(TemplateSlides), e, how),
                            output |-> NoFile, images |-> c.images]
          \/ /\ args = BuildArgs(GoodNarrative, b, s, r, c)
             /\ files = [template |-> NoFile, output |-> NoFile,
                         images |-> c.images]

\* prs = Presentation(str(template_path))
BuildOpen ==
    /\ call = "build_report_pptx"
    /\ pc = "open"
    /\ LET r == Open(files)
       IN  IF r.kind = "raise"
           THEN pc' = "done" /\ result' = r /\ prs' = PyNone
           ELSE pc' = StepAfter[pc] /\ prs' = r.value /\ UNCHANGED result
    /\ UNCHANGED <<call, args, files, appVars>>

\* the end of a block that fills a slide, r its outcome: an exception ends
\* the call
BuildBlock(r) ==
    /\ call = "build_report_pptx"
    /\ IF r.kind = "raise"
       THEN pc' = "done" /\ result' = r /\ prs' = PyNone
       ELSE /\ pc' = StepAfter[pc]
            /\ prs' = IF pc' = "done" THEN PyNone ELSE r.value
            /\ result' = IF pc' = "done" THEN Return(args.output_path)
                         ELSE result
    /\ UNCHANGED <<call, args, files, appVars>>

BuildSlide1 ==
    /\ pc = "slide1"
    /\ BuildBlock(Slide1(prs, args))

BuildSlide3 ==
    /\ pc = "slide3"
    /\ BuildBlock(Slide3(prs, args))

BuildSlide4 ==
    /\ pc = "slide4"
    /\ BuildBlock(Slide4(prs, args))

BuildSlide5 ==
    /\ pc = "slide5"
    /\ BuildBlock(Slide5(prs, args))

BuildSlide6 ==
    /\ pc = "slide6"
    /\ BuildBlock(Slide6(prs, args, files.images))

BuildSlide7 ==
    /\ pc = "slide7"
    /\ BuildBlock(Slide7(prs, args))

\* prs.save(str(out_path)); return out_path
BuildSave ==
    /\ call = "build_report_pptx"
    /\ pc = "save"
    /\ files' = Save(files, args, prs)
    /\ pc' = StepAfter[pc]
    /\ prs' = IF pc' = "done" THEN PyNone ELSE prs
    /\ result' = IF pc' = "done" THEN Return(args.output_path) ELSE result
    /\ UNCHANGED <<call, args, appVars>>

NextBuild ==
    \/ BuildOpen \/ BuildSlide1 \/ BuildSlide3 \/ BuildSlide4 \/ BuildSlide5
    \/ BuildSlide6 \/ BuildSlide7 \/ BuildSave

SpecBuild == InitBuild /\ [][NextBuild]_vars

(***************************************************************************)
(* Calls of build_report_pptx one after the other, on the same files.  The *)
(* log holds, for each call begun, the template it found and its           *)
(* output_path.                                                            *)
(***************************************************************************)
\* the most calls made one after the other
MaxBuilds == 3

BothCharts ==
    [radar_chart_1_path |-> PyStr("radar_1.png"),
     radar_chart_2_path |-> PyStr("radar_2.png")]

\* a full report, a report of another candidate without the optional
\* arguments, a full report written to the path of the template, and one
\* with a score that is no number
RebuildArgs ==
    {BuildArgs(GoodNarrative, GoodBarScores, Dict(<<<<"Fit for Role", 4>>>>),
               GoodReasoning, BothCharts),
     [BuildArgs(GoodNarrative, PyNone, PyNone, PyNone, BothCharts)
        EXCEPT !.candidate_name = "Grace Hopper",
               !.radar_chart_1_path = PyNone],
     [BuildArgs(GoodNarrative, GoodBarScores, PyNone, GoodReasoning,
                BothCharts)
        EXCEPT !.output_path = "template.pptx"],
     BuildArgs(GoodNarrative, GoodBarScores, PyNone,
               Dict(<<<<"verbal", PyNone>>>>), BothCharts)}

Called(fs, a) ==
    [op |-> "build_report_pptx",
     what |-> [template |-> fs.template, output_path |-> a.output_path],
     outcome |-> "called"]

InitRebuild ==
    /\ call = "build_report_pptx"
    /\ pc = "open"
    /\ result = NoResult
    /\ prs = PyNone
    /\ args \in RebuildArgs
    /\ \E t \in {CompleteTemplate,
                  Template(Len(TemplateSlides) - 1, "", "absent"),
                  Template(Len(TemplateSlides), "spider_2", "absent")} :
          files = [template |-> t, output |-> NoFile,
                   images |-> {"radar_1.png", "radar_2.png"}]
    /\ env = [api_key |-> FALSE]
    /\ tries = 0
    /\ msgs = <<>>
    /\ assistant_text = ""
    /\ frame = NoFrame
    /\ shown = <<>>
    /\ log = <<Called(files, args)>>

\* the caller calls build_report_pptx once more
BuildAgain ==
    /\ call = "build_report_pptx"
    /\ pc = "done"
    /\ Len(log) < MaxBuilds
    /\ args' \in RebuildArgs
    /\ log' = Append(log, Called(files, args'))
    /\ pc' = "open"
    /\ result' = NoResult
    /\ UNCHANGED <<call, buildVars, env, tries, msgs, assistant_text, frame,
                   shown>>

NextRebuild ==
    \/ BuildOpen \/ BuildSlide1 \/ BuildSlide3 \/ BuildSlide4 \/ BuildSlide5
    \/ BuildSlide6 \/ BuildSlide7 \/ BuildSave \/ BuildAgain

SpecRebuild == InitRebuild /\ [][NextRebuild]_vars

(***************************************************************************)
(* openai_api.py: _chat and generate_report under its backoff decorator.   *)
(* JSON texts are written out by dumps, so that json.loads has texts to    *)
(* parse; a JSON object is a function of its keys.                         *)
(***************************************************************************)
Quoted(str) == "\"" \o str \o "\""

DumpEntry(entry) ==
    "{\"title\": " \o Quoted(entry.title) \o ", \"paragraph\": "
      \o Quoted(entry.paragraph) \o "}"

RECURSIVE DumpList(_)
DumpList(list) ==
    IF list = <<>> THEN ""
    ELSE DumpEntry(Head(list))
           \o (IF Len(list) > 1 THEN ", " ELSE "") \o DumpList(Tail(list))

NarrativeKeys ==
    <<"personal_profile", "strengths", "development_areas",
      "future_considerations", "personal_development", "org_support">>

TextKeys == {"personal_profile", "future_considerations"}

RECURSIVE DumpFrom(_, _, _)
DumpFrom(obj, k, first) ==
    IF k > Len(NarrativeKeys) THEN ""
    ELSE IF NarrativeKeys[k] \notin DOMAIN obj THEN DumpFrom(obj, k + 1, first)
    ELSE (IF first THEN "" ELSE ", ") \o Quoted(NarrativeKeys[k]) \o ": "
           \o (IF NarrativeKeys[k] \in TextKeys
               THEN Quoted(obj[NarrativeKeys[k]])
               ELSE "[" \o DumpList(obj[NarrativeKeys[k]]) \o "]")
           \o DumpFrom(obj, k + 1, FALSE)

\* json.dumps of an object with narrative keys
dumps(obj) == "{" \o DumpFrom(obj, 1, TRUE) \o "}"

\* the narrative a reply holds
Expanded(n) ==
    [personal_profile |-> "profile", strengths |-> n.strengths,
     development_areas |-> n.development_areas,
     future_considerations |-> "future",
     personal_development |-> n.personal_development,
     org_support |-> n.org_support]

\* the objects of the JSON texts that are tried: the narrative of the
\* schema, one with longer lists, one with a short list, one without its
\* org_support, and the empty object
JsonObjects ==
    << Expanded(GoodNarrative), Expanded(NarrativeOf(<<4, 4, 3, 3>>)),
       Expanded(NarrativeOf(<<3, 2, 2, 2>>)),
       [personal_profile |-> "profile",
        strengths |-> GoodNarrative.strengths],
       [k \in {} |-> ""] >>

JsonTexts == [i \in 1..Len(JsonObjects) |-> dumps(JsonObjects[i])]

\* json.loads(text)
json_loads(text) ==
    IF \E i \in 1..Len(JsonTexts) : JsonTexts[i] = text
    THEN Return(JsonObjects[Min({i \in 1..Len(JsonTexts) :
                                    JsonTexts[i] = text})])
    ELSE Raise("JSONDecodeError", "Expecting value", PyNone)

SYSTEM_PROMPT == "_NARRATIVE_INSTRUCTIONS\n\n_JSON_REQUIREMENT"

Corrective ==
    [role |-> "user",
     content |-> "That was not valid JSON. Please return *only* valid JSON."]

\* max_tries of the decorator
max_tries == 3

\* not raw_notes.strip(), were the notes not stripped
NoNotes_Unstripped(raw_notes) == raw_notes = ""

\* not raw_notes.strip()
NoNotes(raw_notes) == strip(raw_notes) = ""

\* the decorator gives up after one more try than max_tries
GivesUp_OneLate(n) == n >= max_tries + 1

\* the decorator gives up on the exception of try n
GivesUp(n) == n >= max_tries

\* what the service does with one request: message.content of its reply
\* (None when the reply has no text), or an error of the API
Contents ==
    {PyStr(JsonTexts[i]) : i \in 1..Len(JsonTexts)} \cup
    {PyStr(" " \o JsonTexts[1] \o "\n"), PyStr("Here is the report:"),
     PyStr(""), PyNone}

ServiceOutcomes ==
    {Return(c) : c \in Contents} \cup
    {Raise("APIConnectionError", "Connection error.", PyNone)}

\* _chat(messages), given the key and what the service does
_chat(api_key, outcome) ==
    IF ~api_key
    THEN Raise("RuntimeError", "OPENAI_API_KEY missing", PyNone)
    ELSE IF outcome.kind = "raise" THEN outcome
    ELSE IF outcome.value = PyNone
    THEN Raise("AttributeError",
               "'NoneType' object has no attribute 'strip'", PyNone)
    ELSE Return(strip(outcome.value.s))

(***************************************************************************)
(* app.py: main, one run of the script, with generate_report run try by    *)
(* try.  The log holds what was called, in order, and how each call ended. *)
(***************************************************************************)
Event(op, what, outcome) == [op |-> op, what |-> what, outcome |-> outcome]

\* st.stop()
Stopped == Return("st.stop")

\* an exception leaves generate_report: to the handler of main, or to the
\* caller; lg is the log so far
Propagates(exc, lg) ==
    /\ log' = Append(lg, Event("generate_report", args.raw_notes, exc.kind))
    /\ IF call = "main"
       THEN pc' = "except" /\ frame' = [frame EXCEPT !.exc = exc]
              /\ UNCHANGED result
       ELSE pc' = "done" /\ result' = exc /\ UNCHANGED frame

\* the decorator on an exception of try n: the next try, or the exception
Fails(n, exc, lg) ==
    IF GivesUp(n) THEN Propagates(exc, lg)
    ELSE pc' = "try" /\ log' = lg /\ UNCHANGED <<result, frame>>

\* return assistant_text
Returns(text, lg) ==
    /\ log' = Append(lg, Event("generate_report", args.raw_notes, "return"))
    /\ IF call = "main"
       THEN pc' = "parse" /\ frame' = [frame EXCEPT !.gpt_json = text]
              /\ UNCHANGED result
       ELSE pc' = "done" /\ result' = Return(text) /\ UNCHANGED frame

\* one try of generate_report, up to the first _chat
Try ==
    /\ pc = "try"
    /\ tries' = tries + 1
    /\ IF NoNotes(args.raw_notes)
       THEN /\ Fails(tries + 1,
                     Raise("ValueError", "raw_notes is empty", PyNone), log)
            /\ UNCHANGED msgs
       ELSE /\ msgs' = <<[role |-> "system", content |-> SYSTEM_PROMPT],
                         [role |-> "user", content |-> args.raw_notes]>>
            /\ pc' = "chat"
            /\ UNCHANGED <<result, frame, log>>
    /\ UNCHANGED <<call, args, buildVars, env, assistant_text, shown>>

\* assistant_text = _chat(msgs), line 112
ChatFirst ==
    /\ pc = "chat"
    /\ \E o \in ServiceOutcomes :
          LET r == _chat(env.api_key, o)
              lg == Append(log, Event("_chat", msgs, r.kind))
          IN  IF r.kind = "raise"
              THEN Fails(tries, r, lg) /\ UNCHANGED assistant_text
              ELSE /\ assistant_text' = r.value
                   /\ log' = lg
                   /\ pc' = "check"
                   /\ UNCHANGED <<result, frame>>
    /\ UNCHANGED <<call, args, buildVars, env, tries, msgs, shown>>

\* the quick parse check, lines 115-120
Check ==
    /\ pc = "check"
    /\ IF json_loads(assistant_text).kind = "raise"
       THEN /\ msgs' = msgs \o <<[role |-> "assistant",
                                  content |-> assistant_text], Corrective>>
            /\ pc' = "fix"
            /\ UNCHANGED <<result, frame, log>>
       ELSE Returns(assistant_text, log) /\ UNCHANGED msgs
    /\ UNCHANGED <<call, args, buildVars, env, tries, assistant_text, shown>>

\* assistant_text = _chat(msgs), line 121, and the return
ChatCorrective ==
    /\ pc = "fix"
    /\ \E o \in ServiceOutcomes :
          LET r == _chat(env.api_key, o)
              lg == Append(log, Event("_chat", msgs, r.kind))
          IN  IF r.kind = "raise"
              THEN Fails(tries, r, lg) /\ UNCHANGED assistant_text
              ELSE assistant_text' = r.value /\ Returns(r.value, lg)
    /\ UNCHANGED <<call, args, buildVars, env, tries, msgs, shown>>

\* the steps of main, each with the step that runs after it, were the
\* scores computed after the document is built
MainStepAfter_BuildingFirst ==
    [validate |-> "try", parse |-> "charts", charts |-> "build",
     build |-> "aggregate", aggregate |-> "download", download |-> "done",
     except |-> "done"]

\* the steps of main, each with the step that runs after it
MainStepAfter ==
    [validate |-> "try", parse |-> "aggregate", aggregate |-> "charts",
     charts |-> "build", build |-> "download", download |-> "done",
     except |-> "done"]

\* the TemporaryDirectory is removed when its block is left
TmpRemoved(fs) == [fs EXCEPT !.output = NoFile, !.images = {}]

\* an exception nothing catches ends the run
Crashes(exc) == pc' = "done" /\ result' = exc

\* lines 95-103
MainValidate ==
    /\ call = "main"
    /\ pc = "validate"
    /\ IF ~args.submitted
       THEN pc' = "done" /\ result' = Stopped /\ UNCHANGED shown
       ELSE IF \/ args.candidate_name = ""
               \/ args.role_and_company = ""
               \/ strip(args.raw_notes) = ""
       THEN /\ shown' = Append(shown, <<"error", "Please fill in">>)
            /\ pc' = "done"
            /\ result' = Stopped
       ELSE pc' = MainStepAfter[pc] /\ UNCHANGED <<shown, result>>
    /\ UNCHANGED <<call, args, buildVars, env, tries, msgs, assistant_text,
                   frame, log>>

\* expanded = json.loads(gpt_json), line 111
MainParse ==
    /\ call = "main"
    /\ pc = "parse"
    /\ LET r == json_loads(frame.gpt_json)
       IN  /\ log' = Append(log, Event("json.loads", frame.gpt_json, r.kind))
           /\ IF r.kind = "raise"
              THEN pc' = "except" /\ frame' = [frame EXCEPT !.exc = r]
              ELSE /\ pc' = MainStepAfter[pc]
                   /\ frame' = [frame EXCEPT !.expanded = r.value]
    /\ UNCHANGED <<call, args, buildVars, env, tries, msgs, assistant_text,
                   shown, result>>

\* except Exception as exc: st.exception(exc); st.stop()
MainExcept ==
    /\ call = "main"
    /\ pc = "except"
    /\ shown' = Append(shown, <<"exception", frame.exc.exc>>)
    /\ result' = Stopped
    /\ pc' = MainStepAfter[pc]
    /\ UNCHANGED <<call, args, buildVars, env, tries, msgs, assistant_text,
                   frame, log>>

\* bar_scores = aggregate_eight_scores(detailed_ratings), line 126
MainAggregate ==
    /\ call = "main"
    /\ pc = "aggregate"
    /\ LET r == aggregate_eight_scores(args.detailed_ratings)
       IN  /\ log' = Append(log, Event("aggregate_eight_scores",
                                       "detailed_ratings", r.kind))
           /\ IF r.kind = "raise" THEN Crashes(r) /\ UNCHANGED frame
              ELSE /\ pc' = MainStepAfter[pc]
                   /\ frame' = [frame EXCEPT !.bar_scores =
                         Dict([g \in 1..Len(_GROUP_MAP) |->
                                 <<_GROUP_MAP[g][1],
                                   Score(r.value[_GROUP_MAP[g][1]])>>])]
                   /\ UNCHANGED result
    /\ UNCHANGED <<call, args, buildVars, env, tries, msgs, assistant_text,
                   shown>>

\* radar1_path, radar2_path = build_radar_charts(...), line 129
MainCharts ==
    /\ call = "main"
    /\ pc = "charts"
    /\ LET r == split_radar_groups(args.detailed_ratings)
       IN  /\ log' = Append(log, Event("build_radar_charts",
                                       "detailed_ratings", r.kind))
           /\ IF r.kind = "raise"
              THEN Crashes(r) /\ files' = TmpRemoved(files)
              ELSE /\ pc' = MainStepAfter[pc]
                   /\ files' = [files EXCEPT
                                  !.images = {"radar_1.png", "radar_2.png"}]
                   /\ UNCHANGED result
    /\ UNCHANGED <<call, args, prs, env, tries, msgs, assistant_text, frame,
                   shown>>

\* the arguments of the call of lines 136-152
MainBuildArgs ==
    [template_path |-> "template.pptx",
     output_path |-> "Executive_Report.pptx",
     candidate_name |-> args.candidate_name,
     role_and_company |-> args.role_and_company,
     personal_profile |-> frame.expanded["personal_profile"],
     strengths |-> frame.expanded["strengths"],
     development_areas |-> frame.expanded["development_areas"],
     future_considerations |-> frame.expanded["future_considerations"],
     personal_development |-> frame.expanded["personal_development"],
     org_support |-> frame.expanded["org_support"],
     radar_chart_1_path |-> PyStr("radar_1.png"),
     radar_chart_2_path |-> PyStr("radar_2.png"),
     bar_scores |-> frame.bar_scores,
     summary_ratings |-> args.overall_ratings,
     reasoning_scores |-> args.reasoning_scores]

\* build_report_pptx(...), lines 136-152: a key the narrative lacks raises
\* before the call
MainBuild ==
    /\ call = "main"
    /\ pc = "build"
    /\ IF \E k \in 1..Len(NarrativeKeys) :
             NarrativeKeys[k] \notin DOMAIN frame.expanded
       THEN /\ Crashes(Raise("KeyError", "",
                  NarrativeKeys[Min({k \in 1..Len(NarrativeKeys) :
                      NarrativeKeys[k] \notin DOMAIN frame.expanded})]))
            /\ files' = TmpRemoved(files)
            /\ UNCHANGED log
       ELSE LET r == build_report_pptx(files, MainBuildArgs)
            IN  /\ log' = Append(log, Event("build_report_pptx",
                                            "template.pptx", r.result.kind))
                /\ IF r.result.kind = "raise"
                   THEN Crashes(r.result) /\ files' = TmpRemoved(r.files)
                   ELSE /\ pc' = MainStepAfter[pc]
                        /\ files' = r.files
                        /\ UNCHANGED result
    /\ UNCHANGED <<call, args, prs, env, tries, msgs, assistant_text, frame,
                   shown>>

\* st.success, st.download_button, lines 157-164
MainDownload ==
    /\ call = "main"
    /\ pc = "download"
    /\ shown' = shown \o <<<<"success", "Done!">>,
                           <<"download", files.output>>>>
    /\ files' = TmpRemoved(files)
    /\ pc' = MainStepAfter[pc]
    /\ result' = Return(PyNone)
    /\ UNCHANGED <<call, args, prs, env, tries, msgs, assistant_text, frame,
                   log>>

(***************************************************************************)
(* The runs of main and the calls of generate_report that are tried.       *)
(***************************************************************************)
Notes == {"", "   ", "\n\t ", "notes", " notes\n"}

\* what the 24 sliders give; the last two are a form without one of its
\* traits and a rating outside 1..5, which no slider gives but which main
\* would hand on as it hands on the others
MainRatings ==
    {Form(1, PyInt(3), <<PyInt(3), PyInt(3), PyInt(3)>>, "lower"),
     Form(2, PyInt(4), <<PyInt(1), PyInt(2), PyInt(5)>>, "lower"),
     Form(1, PyInt(3), <<PyInt(3), Absent, PyInt(3)>>, "lower"),
     Form(8, PyInt(3), <<PyInt(3), PyInt(3), PyInt(MaxInt)>>, "lower")}

SliderRatings == Form(1, PyInt(3), <<PyInt(3), PyInt(3), PyInt(3)>>, "lower")

MainArgs(submitted, candidate_name, role_and_company, raw_notes, ratings) ==
    [submitted |-> submitted, candidate_name |-> candidate_name,
     role_and_company |-> role_and_company, raw_notes |-> raw_notes,
     overall_ratings |->
         Dict(<<<<"Fit for Role", 2>>, <<"Capabilities", 3>>,
                <<"Potential", 4>>, <<"Future Considerations", 5>>>>),
     detailed_ratings |-> ratings,
     reasoning_scores |-> GoodReasoning]

InitApp ==
    /\ result = NoResult
    /\ prs = PyNone
    /\ tries = 0
    /\ msgs = <<>>
    /\ assistant_text = ""
    /\ frame = NoFrame
    /\ log = <<>>
    /\ shown = <<>>
    /\ \/ /\ call = "generate_report"
          /\ pc = "try"
          /\ \E n \in Notes : args = [raw_notes |-> n]
          /\ env \in [api_key : BOOLEAN]
          /\ files = NoFiles
       \/ /\ call = "main"
          /\ pc = "validate"
          /\ \/ /\ args = MainArgs(FALSE, "", "", "", SliderRatings)
                /\ env = [api_key |-> TRUE]
                /\ files = [NoFiles EXCEPT !.template = CompleteTemplate]
             \/ /\ \E c \in {"", "Ada Lovelace"}, r \in {"", "CTO, Acme"},
                      n \in Notes :
                      args = MainArgs(TRUE, c, r, n, SliderRatings)
                /\ env = [api_key |-> TRUE]
                /\ files = [NoFiles EXCEPT !.template = CompleteTemplate]
             \/ /\ \E n \in {"notes", " notes\n"}, d \in MainRatings :
                      args = MainArgs(TRUE, "Ada Lovelace", "CTO, Acme", n, d)
                /\ env \in [api_key : BOOLEAN]
                /\ \E t \in {Len(TemplateSlides) - 1, Len(TemplateSlides)} :
                      files = [NoFiles EXCEPT
                                 !.template = Template(t, "", "absent")]

NextApp ==
    \/ Try \/ ChatFirst \/ Check \/ ChatCorrective
    \/ MainValidate \/ MainParse \/ MainExcept \/ MainAggregate
    \/ MainCharts \/ MainBuild \/ MainDownload

SpecApp == InitApp /\ [][NextApp]_vars

\* the steps of main up to the end of its try block, generate_report in it
ExpansionNext ==
    \/ Try \/ ChatFirst \/ Check \/ ChatCorrective
    \/ MainValidate \/ MainParse \/ MainExcept

\* the script is one thread that runs its steps one after the other: a
\* step of the expansion that can run does run (a request to the service
\* ends, with a reply or an error, and the decorator sleeps a finite time)
FairSpecApp == SpecApp /\ WF_vars(ExpansionNext)

(***************************************************************************)
(* What the properties below speak of.                                     *)
(***************************************************************************)
Done(f) == pc = "done" /\ call = f

Abs(i) == IF i < 0 THEN -i ELSE i

AllTraits == {TRAIT_24[i] : i \in 1..Len(TRAIT_24)}

GroupNames ==
    {"purpose energy", "intellectual energy", "emotional energy",
     "people energy", "performance impact", "strategic framing",
     "mobilisation", "powerful relationships"}

\* the traits a rating set rates
KeysOf(items) == {KeyLower(items[i][1]) : i \in 1..Len(items)}

\* every rating of the set normalises
AllValid(items) ==
    \A i \in 1..Len(items) : _to_numeric(items[i][2]).kind = "return"

\* a complete 24-trait rating set
IsComplete(items) ==
    Len(items) = 24 /\ KeysOf(items) = AllTraits /\ AllValid(items)

\* the normalised rating of trait t in a set that rates it
Rating(items, t) ==
    _to_numeric(items[CHOOSE i \in 1..Len(items) :
                          KeyLower(items[i][1]) = t][2]).value

\* the traits of group g that the set does not rate
MissingOf(items, g) ==
    {_GROUP_MAP[g][2][j] : j \in 1..3} \ KeysOf(items)

(***************************************************************************)
(* C1: for a complete 24-trait rating set aggregate_eight_scores returns,  *)
(* for each of the 8 groups, the mean of the normalised ratings of the     *)
(* group's 3 traits rounded to 2 decimals (the hundredth nearest to a     *)
(* third of their sum); when all 24 ratings are the same v, every score   *)
(* is v.                                                                   *)
(***************************************************************************)
C1_MeanOfThreeRounded ==
    (Done("aggregate_eight_scores") /\ IsComplete(args)) =>
        /\ result.kind = "return"
        /\ \A g \in 1..Len(_GROUP_MAP) :
             LET traits == _GROUP_MAP[g][2]
                 total == Rating(args, traits[1]) + Rating(args, traits[2])
                            + Rating(args, traits[3])
                 score == result.value[_GROUP_MAP[g][1]]
             IN  2 * Abs(3 * score - 100 * total) <= 3
        /\ \A v \in 1..5 :
             (\A t \in AllTraits : Rating(args, t) = v) =>
                 \A name \in GroupNames : result.value[name] = 100 * v

\* mission, drive, agency rated 1, 2, 2: purpose energy is 1.67
C1_Witness ==
    /\ Done("aggregate_eight_scores")
    /\ IsComplete(args)
    /\ args[1] = <<"mission", PyInt(1)>>
    /\ args[2] = <<"drive", PyInt(2)>>
    /\ args[3] = <<"agency", PyInt(2)>>
    /\ result.kind = "return"
    /\ result.value["purpose energy"] = 167
    /\ result.value["mobilisation"] = 100 * args[24][2].n

C4_AllOrNothing ==
    Done("aggregate_eight_scores") =>
        \/ result.kind = "raise"
        \/ result.kind = "return" /\ DOMAIN result.value = GroupNames

\* the first 7 groups are complete and a trait of the last one is missing
C4_Witness ==
    /\ Done("aggregate_eight_scores")
    /\ \A g \in 1..7 : MissingOf(args, g) = {}
    /\ MissingOf(args, 8) # {}
    /\ AllValid(args)
    /\ result.kind = "raise"

(***************************************************************************)
(* C5: _to_numeric returns r for an integer r in 1..5 and 1, 2, 3, 4, 5    *)
(* for the labels Below, Developing, Hits, Good, Strong in any letter      *)
(* case; whatever it returns is in 1..5.                                   *)
(***************************************************************************)
LabelSpellings == <<
    {"Below", "below"}, {"Developing", "DEVELOPING"}, {"Hits", "hITS"},
    {"Good", "good"}, {"Strong", "STRONG"}>>

C5_IntegersAndLabels ==
    Done("_to_numeric") =>
        /\ (args.type = "int" /\ args.n \in 1..5) => result = Return(args.n)
        /\ \A i \in 1..5 :
             (args.type = "str" /\ args.s \in LabelSpellings[i])
                 => result = Return(i)
        /\ result.kind = "return" => result.value \in 1..5

C5_Witness ==
    /\ Done("_to_numeric")
    /\ args = PyStr("hITS")
    /\ result = Return(3)

(***************************************************************************)
(* C6, as stated: _to_numeric raises ValueError for every integer outside  *)
(* 1..5 and for every string that is not one of the five labels (compared  *)
(* without regard to letter case), the empty string included.              *)
(***************************************************************************)
IsLabel(str) == \E i \in 1..5 : lower(str) = lower(Labels[i])

C7_RejectsNonIntegral ==
    (/\ Done("_to_numeric")
     /\ args.type \in {"int", "float"}
     /\ ~(\E r \in 1..5 : args = PyInt(r) \/ args = PyFloat(10 * r)))
    => result.kind = "raise"

(***************************************************************************)
(* C8: for a complete 24-trait rating set split_radar_groups returns two   *)
(* ordered mappings: their key sets are disjoint, they have 11 and 12 or   *)
(* 13 entries, the keys come in the order of the fixed trait lists and     *)
(* each value is the normalised 1..5 rating of its trait.                  *)
(***************************************************************************)
Radar1Order == <<
    "mission", "drive", "agency", "incisiveness", "curiosity",
    "positivity", "resilience", "growth mindset",
    "compelling impact", "connection", "environmental insight">>

Radar2Order == <<
    "achieves sustainable impact", "creates focus", "orchestrates delivery",
    "frames complexity", "identifies new possibilities", "generates solutions",
    "inspires people", "drives culture", "grows self and others",
    "aligns stakeholders", "models collaboration", "builds teams">>

\* the ordered mapping m has the keys of order, in that order, each with the
\* normalised rating of the trait
IsRadarOf(m, order, items) ==
    /\ Len(m) = Len(order)
    /\ \A i \in 1..Len(m) :
         /\ m[i][1] = order[i]
         /\ m[i][2] = Rating(items, order[i])
         /\ m[i][2] \in 1..5
    /\ \A i, j \in 1..Len(m) : m[i][1] = m[j][1] => i = j

C8_RadarGroups ==
    (Done("split_radar_groups") /\ IsComplete(args)) =>
        /\ result.kind = "return"
        /\ IsRadarOf(result.value[1], Radar1Order, args)
        /\ IsRadarOf(result.value[2], Radar2Order, args)
        /\ Len(result.value[1]) = 11
        /\ Len(result.value[2]) \in {12, 13}
        /\ {result.value[1][i][1] : i \in 1..Len(result.value[1])} \cap
           {result.value[2][i][1] : i \in 1..Len(result.value[2])} = {}

C8_Witness ==
    /\ Done("split_radar_groups")
    /\ IsComplete(args)
    /\ args[22] = <<"aligns stakeholders", PyStr(" Good ")>>
    /\ args[23] = <<"models collaboration", PyInt(5)>>
    /\ args[1][2] = PyInt(1)
    /\ result.kind = "return"
    /\ result.value[1][1] = <<"mission", 1>>
    /\ result.value[2][10] = <<"aligns stakeholders", 4>>
    /\ result.value[2][11] = <<"models collaboration", 5>>

(***************************************************************************)
(* C9: the second mapping that split_radar_groups returns has 13 traits,   *)
(* the first has 11.                                                       *)
(***************************************************************************)
C9_ElevenAndThirteen ==
    (Done("split_radar_groups") /\ result.kind = "return") =>
        /\ Len(result.value[1]) = 11
        /\ Len(result.value[2]) = 13

(***************************************************************************)
(* C10: when a trait of the two radar lists is missing (and every rating   *)
(* that is there normalises), split_radar_groups fails as                  *)
(* aggregate_eight_scores does on the same rating set: both raise, with    *)
(* the same kind of error, ValueError "Missing rating for trait", and the  *)
(* error of split_radar_groups names a missing trait.                      *)
(***************************************************************************)
C10_SplitFailsLikeAggregate ==
    (/\ Done("split_radar_groups")
     /\ AllValid(args)
     /\ \/ \E i \in 1..11 : Radar1Order[i] \notin KeysOf(args)
        \/ \E i \in 1..12 : Radar2Order[i] \notin KeysOf(args))
    => LET a == aggregate_eight_scores(args)
       IN  /\ result.kind = "raise"
           /\ a.kind = "raise"
           /\ result.exc = a.exc
           /\ result.exc = "ValueError"
           /\ result.msg = "Missing rating for trait"
           /\ result.arg \in AllTraits \ KeysOf(args)

(***************************************************************************)
(* C11: trait names are matched without regard to letter case: a rating    *)
(* set gives aggregate_eight_scores and split_radar_groups the result that *)
(* the same set with its keys in lower case gives.                         *)
(***************************************************************************)
\* the rating set with every key written in lower case
LowerKeyed(items) ==
    [i \in 1..Len(items) |-> <<lower(items[i][1]), items[i][2]>>]

HasUpperKey(items) == \E i \in 1..Len(items) : items[i][1] # lower(items[i][1])

C11_KeyCaseIgnored ==
    /\ Done("aggregate_eight_scores")
          => result = aggregate_eight_scores(LowerKeyed(args))
    /\ Done("split_radar_groups")
          => result = split_radar_groups(LowerKeyed(args))

\* the keys MISSION, DRIVE, AGENCY are found as mission, drive, agency
C11_Witness ==
    /\ Done("aggregate_eight_scores")
    /\ HasUpperKey(args)
    /\ args[1] = <<"MISSION", PyInt(2)>>
    /\ Len(args) = 24
    /\ result.kind = "return"
    /\ result.value["purpose energy"] = 200

(***************************************************************************)
(* C12: the width that _resize_bar gives a bar depends on the reference    *)
(* width, the score and max_score only, not on the width the bar has: a    *)
(* score equal to max_score gives the reference width, a score of 0 gives  *)
(* 0, and a second resize with the same score leaves the width of the      *)
(* first.                                                                  *)
(***************************************************************************)
IsBar(shape) == shape # PyNone /\ ~shape.has_text_frame

C12_BarWidthFromReference ==
    (call = "_resize_bar" /\ pc \in {"done", "again"} /\ IsBar(args.shape)) =>
        LET w == result.value.width
            exact == MulDiv(args.max_width_emu, args.score, args.max_score)
        IN  /\ \A now \in {0, 1000, args.max_width_emu} :
                 w = _resize_bar([args.shape EXCEPT !.width = now],
                                 args.score, args.max_score,
                                 args.max_width_emu).width
            /\ exact - 1 <= w /\ w <= exact
            /\ args.score = args.max_score => w = args.max_width_emu
            /\ args.score = 0 => w = 0

\* a bar of width 1000 resized twice with the full score
C12_Witness ==
    /\ call = "_resize_bar"
    /\ pc = "again"
    /\ IsBar(args.shape)
    /\ args.shape.width = 1000
    /\ args.score = args.max_score
    /\ args.max_width_emu = 5029200
    /\ result.value.width = 5029200

(***************************************************************************)
(* C13: for a rating in 1..5 and a track whose left bound is not right of  *)
(* its right bound, _reposition_ball puts the marker at the left bound for *)
(* rating 1, at the right bound for rating 5, at the midpoint for rating 3 *)
(* (the whole EMU below it when the track has an odd length), and always   *)
(* within the two bounds.                                                  *)
(***************************************************************************)
C13_MarkerOnTrack ==
    (/\ Done("_reposition_ball")
     /\ args.ball # PyNone
     /\ args.rating \in 1..5
     /\ args.track_left_emu <= args.track_right_emu)
    => LET l == args.track_left_emu
           r == args.track_right_emu
           at == result.value.left
       IN  /\ args.rating = 1 => at = l
           /\ args.rating = 5 => at = r
           /\ args.rating = 3 =>
                 2 * at = (IF (r - l) % 2 = 0 THEN l + r ELSE l + r - 1)
           /\ l <= at /\ at <= r

\* rating 3 on the track of build_report_pptx, 1.2 to 6.5 inches
C13_Witness ==
    /\ Done("_reposition_ball")
    /\ args.ball # PyNone
    /\ args.rating = 3
    /\ args.track_left_emu = 1097280
    /\ args.track_right_emu = 5943600
    /\ result.value.left = 3520440

(***************************************************************************)
(* build_report_pptx: what the properties below speak of.                  *)
(***************************************************************************)
BuildDone == call = "build_report_pptx" /\ pc = "done"

\* the template lacks exactly the element e, and is complete otherwise
Lacks(e) ==
    \E how \in {"absent", "renamed"} :
        files.template = Template(Len(TemplateSlides), e, how)

\* what the same call does with the complete template
Reference ==
    build_report_pptx([files EXCEPT !.template = CompleteTemplate,
                                    !.output = NoFile], args)

\* the image that goes in the place of the element e, if e is a placeholder
ImageOf(e) ==
    IF e = "spider_1" /\ Truthy(args.radar_chart_1_path)
    THEN args.radar_chart_1_path.s
    ELSE IF e = "spider_2" /\ Truthy(args.radar_chart_2_path)
    THEN args.radar_chart_2_path.s
    ELSE "no image"

\* the document without the element e, under either name, and without the
\* picture that replaces it
Others(doc, e) ==
    [i \in 1..Len(doc) |->
        SelectSeq(doc[i], LAMBDA sh : /\ sh.name \notin {e, e \o "_old"}
                                      /\ sh.image # ImageOf(e))]

\* C14: when exactly one element that build_report_pptx writes to is absent
\* from (or renamed in) an otherwise complete template, a build that
\* completes with the complete template completes, saves the document, and
\* leaves every other element as the build with the complete template does
C14_OneAbsentElementIsSkipped ==
    \A e \in WrittenNames :
        BuildDone /\ Lacks(e) /\ Reference.result.kind = "return"
          => /\ result = Return(args.output_path)
             /\ files.output # NoFile
             /\ Others(files.output.slides, e)
                  = Others(Reference.files.output.slides, e)

\* the bar of the first energy is renamed, and the document is saved with
\* the seven other bars resized and the renamed bar as wide as it was
C14_Witness ==
    /\ BuildDone
    /\ files.template = Template(Len(TemplateSlides), "bar_purpose", "renamed")
    /\ args.bar_scores = GoodBarScores
    /\ files.output # NoFile
    /\ _safe_shape(files.output.slides[5], "bar_purpose") = PyNone
    /\ _safe_shape(files.output.slides[5], "bar_purpose_old").width
         = Inches(550)
    /\ _safe_shape(files.output.slides[5], "bar_people").width
         = ScaledWidth(Inches(550), 367, 500)

\* C15: whenever the template has fewer than the 7 slides the layout
\* expects, build_report_pptx ends with an error and no document is saved,
\* whatever optional arguments are supplied
C15_FewerThanSevenSlidesIsFatal ==
    /\ BuildDone
    /\ files.template # NoFile
    /\ Len(files.template.slides) < Len(TemplateSlides)
    => result.kind = "raise" /\ files.output = NoFile

\* C16: build_report_pptx saves the output file only as its last step: a
\* file at the output path means that every block has run and the call has
\* returned, and a call that ended with an exception (missing slide,
\* narrative list too short, bad score) has left no file at the output path
C16_SaveIsLastStep ==
    call = "build_report_pptx"
      => /\ files.output # NoFile => BuildDone /\ result.kind = "return"
         /\ BuildDone /\ result.kind = "raise" => files.output = NoFile

\* the last block that fills a slide raises on a percentile that is no
\* number, after six slides were filled, and there is no file
C16_Witness ==
    /\ BuildDone
    /\ files.template = CompleteTemplate
    /\ args.bar_scores = GoodBarScores
    /\ result.kind = "raise"
    /\ result.exc = "TypeError"
    /\ files.output = NoFile

(***************************************************************************)
(* main and generate_report: what the properties below speak of.           *)
(***************************************************************************)
\* the places of the log where op was called
Calls(op) == {i \in 1..Len(log) : log[i].op = op}

Built == Calls("build_report_pptx") # {}

\* a call of op that ended as outcome, before place i of the log
Before(i, op, outcome) ==
    \E j \in Calls(op) : j < i /\ log[j].outcome = outcome

Shows(kind) == \E i \in 1..Len(shown) : shown[i][1] = kind

\* C17: in main, build_report_pptx is invoked only after generate_report
\* has returned, its text has parsed and aggregate_eight_scores has
\* succeeded; when one of the three fails no template is opened, no
\* document is built and none is offered
C17_BuildAfterExpansionAndScores ==
    call = "main"
      => /\ \A i \in Calls("build_report_pptx") :
               /\ Before(i, "generate_report", "return")
               /\ Before(i, "json.loads", "return")
               /\ Before(i, "aggregate_eight_scores", "return")
         /\ (\E op \in {"generate_report", "json.loads",
                        "aggregate_eight_scores"} :
                \E j \in Calls(op) : log[j].outcome = "raise")
              => ~Built /\ files.output = NoFile /\ ~Shows("download")
         /\ prs = PyNone
         /\ files.output # NoFile \/ Shows("download") => Built

\* generate_report returned the reply to its corrective message, which
\* was no JSON either: main shows the exception and stops
C17_Witness ==
    /\ call = "main"
    /\ pc = "done"
    /\ Before(Len(log) + 1, "generate_report", "return")
    /\ Before(Len(log) + 1, "json.loads", "raise")
    /\ shown = <<<<"exception", "JSONDecodeError">>>>
    /\ result = Stopped
    /\ ~Built

\* the _chat calls whose last message is the corrective one
Correctives ==
    {i \in Calls("_chat") : log[i].what[Len(log[i].what)] = Corrective}

\* C18: within one call of generate_report at most one corrective message
\* is sent to the service, over every sequence of parse failures and
\* transport errors
C18_AtMostOneCorrective ==
    call \in {"main", "generate_report"} => Cardinality(Correctives) <= 1

\* the last try of a call that has ended
LastTryFailed ==
    /\ Calls("_chat") # {}
    /\ \A i \in Calls("_chat") :
          (\A j \in Calls("_chat") : j <= i) => log[i].outcome = "raise"

\* C19: generate_report always terminates (the run gets past it, and past
\* the try block of main around it); it makes at most 3 tries, and when the
\* external call of the last try has failed the error is raised to the
\* caller: a direct caller gets the exception, and main shows it and stops
\* without building a report
C19_TerminatesWithinThreeTries ==
    /\ [](call \in {"main", "generate_report"}
            => /\ tries <= 3
               /\ Cardinality(Calls("_chat")) <= 2 * 3
               /\ pc = "done" /\ LastTryFailed
                    => /\ tries = 3
                       /\ Calls("generate_report") # {}
                       /\ \A i \in Calls("generate_report") :
                             log[i].outcome = "raise"
                       /\ call = "generate_report"
                            => /\ result.kind = "raise"
                               /\ result.exc \in {"RuntimeError",
                                     "APIConnectionError", "AttributeError"}
                       /\ call = "main"
                            => /\ result = Stopped
                               /\ Len(shown) = 1
                               /\ shown[1][1] = "exception"
                               /\ shown[1][2] = frame.exc.exc
                               /\ ~Built
                               /\ files.output = NoFile)
    /\ <>(pc \notin {"validate", "try", "chat", "check", "fix", "parse",
                      "except"})

\* three tries whose external calls failed, the last on a connection
\* error, and main has shown the error and stopped
C19_Witness ==
    /\ call = "main"
    /\ pc = "done"
    /\ env.api_key
    /\ tries = 3
    /\ LastTryFailed
    /\ shown = <<<<"exception", "APIConnectionError">>>>
    /\ result = Stopped

\* C20: with empty or whitespace-only notes _chat is never called, in main
\* and in generate_report, and the run ends with the error: main shows it
\* and stops, generate_report raises ValueError
C20_NoChatOnEmptyNotes ==
    call \in {"main", "generate_report"} /\ strip(args.raw_notes) = ""
      => /\ Calls("_chat") = {}
         /\ pc = "done" /\ call = "generate_report"
              => result.kind = "raise" /\ result.exc = "ValueError"
         /\ pc = "done" /\ call = "main" /\ args.submitted
              => Shows("error") /\ result = Stopped /\ log = <<>>

\* generate_report was called with notes of blanks only and has raised
\* after its tries, without a call of _chat
C20_Witness ==
    /\ call = "generate_report"
    /\ pc = "done"
    /\ args.raw_notes = "\n\t "
    /\ env.api_key
    /\ result.kind = "raise"
    /\ result.exc = "ValueError"
    /\ Calls("_chat") = {}

\* C21: in main the ratings are validated before generate_report contacts
\* the service: every call of _chat comes after a call of
\* aggregate_eight_scores, and with ratings that aggregate_eight_scores
\* rejects (a value that does not normalise to 1..5, a missing trait)
\* _chat is not called at all
C21_RatingsValidatedBeforeService ==
    call = "main"
      => /\ \A i \in Calls("_chat") :
               \E j \in Calls("aggregate_eight_scores") : j < i
         /\ aggregate_eight_scores(args.detailed_ratings).kind = "raise"
              => Calls("_chat") = {}

\* the record has the six keys of the schema and lists of 3, 3, 2 and 2
AdheresToSchema(obj) ==
    /\ DOMAIN obj = {NarrativeKeys[k] : k \in 1..Len(NarrativeKeys)}
    /\ Len(obj["strengths"]) = 3
    /\ Len(obj["development_areas"]) = 3
    /\ Len(obj["personal_development"]) = 2
    /\ Len(obj["org_support"]) = 2

\* C22: a narrative that deviates from the fixed shape never reaches
\* build_report_pptx: what generate_report returns is JSON that adheres to
\* the schema, and main calls build_report_pptx only with a record of lists
\* of 3, 3, 2 and 2 entries
C22_OnlySchemaNarrativeIsBuilt ==
    /\ call = "generate_report" /\ pc = "done" /\ result.kind = "return"
         => /\ json_loads(result.value).kind = "return"
            /\ AdheresToSchema(json_loads(result.value).value)
    /\ call = "main" /\ Built => AdheresToSchema(frame.expanded)

\* the shapes of the slide that satisfy Test, in order
Shapes(slide, Test(_)) == SelectSeq(slide, Test)

ChartPath(k) ==
    IF k = 1 THEN args.radar_chart_1_path ELSE args.radar_chart_2_path

\* the chart of placeholder k is inserted on the slide: its path is given,
\* the image exists and the placeholder is there
Inserts(slide, k) ==
    /\ Truthy(ChartPath(k))
    /\ ChartPath(k).s \in files.images
    /\ _safe_shape(slide, "spider_" \o Digits[k]) # PyNone

SameGeometry(a, b) ==
    /\ a.left = b.left
    /\ a.top = b.top
    /\ a.width = b.width
    /\ a.height = b.height

\* what the block of slide 6 does to the slide for placeholder k
PictureReplaces(old, new, k) ==
    LET name == "spider_" \o Digits[k]
    IN  IF Inserts(old, k)
        THEN /\ _safe_shape(new, name) = PyNone
             /\ Len(Shapes(new, LAMBDA sh : sh.image = ChartPath(k).s)) = 1
             /\ SameGeometry(
                    Shapes(new, LAMBDA sh : sh.image = ChartPath(k).s)[1],
                    _safe_shape(old, name))
        ELSE /\ Shapes(new, LAMBDA sh : sh.name = name)
                  = Shapes(old, LAMBDA sh : sh.name = name)
             /\ Truthy(ChartPath(k))
                  => Shapes(new, LAMBDA sh : sh.image = ChartPath(k).s) = <<>>

\* C23: when a chart image exists and its placeholder is on slide 6, the
\* block of slide 6 adds one picture with the placeholder's position and
\* size and removes the placeholder; when the image or the placeholder is
\* absent the elements are left as they were; nothing else on the slide and
\* no other slide changes
C23_PictureReplacesPlaceholder ==
    [][call = "build_report_pptx" /\ pc = "slide6" /\ pc' = "slide7"
         => /\ \A k \in {1, 2} : PictureReplaces(prs[6], prs'[6], k)
            /\ ~Inserts(prs[6], 1) /\ ~Inserts(prs[6], 2) => prs'[6] = prs[6]
            /\ Len(prs'[6]) = Len(prs[6])
            /\ \A i \in 1..Len(prs) : i # 6 => prs'[i] = prs[i]
            /\ Len(prs') = Len(prs)]_vars

\* radar_2.png exists and radar_1.png does not: slide 6 holds spider_1 as
\* it was and the picture in the place of spider_2
C23_Witness ==
    /\ call = "build_report_pptx"
    /\ pc = "slide7"
    /\ files.images = {"radar_2.png"}
    /\ prs[6] = <<Placeholder("spider_1", 1),
                  Picture("radar_2.png", Placeholder("spider_2", 2))>>

\* the call that runs, made on the template of the first call and with no
\* file at the output path
Fresh ==
    build_report_pptx([files EXCEPT !.template = log[1].what.template,
                                    !.output = NoFile], args)

\* no call so far was given the path of the template as its output_path
NeverOntoTemplate ==
    \A i \in 1..Len(log) : log[i].what.output_path # args.template_path

\* the template is as before the first call, and a call that has ended has
\* ended as it would have without the calls before it
BuildsAreIndependent ==
    /\ files.template = log[1].what.template
    /\ pc = "done"
         => /\ result = Fresh.result
            /\ result.kind = "return" => files.output = Fresh.files.output

\* a step that changes a file is the save of the call, and it changes the
\* file at output_path only
OnlySaveWrites ==
    files' # files
      => /\ pc = "save"
         /\ files'.images = files.images
         /\ args.output_path # args.template_path
              => /\ files'.template = files.template
                 /\ files'.output = Pptx(prs)

\* C24 as stated: each call of build_report_pptx writes one document, at
\* output_path, and never modifies the template file: after any number of
\* calls the template is as before the first, and the result of a later
\* call does not depend on the earlier calls
C24_TemplateNeverModified ==
    [](call = "build_report_pptx" /\ log # <<>> => BuildsAreIndependent)

\* C24, amended: the same for calls whose output_path is not the path of
\* the template; each call changes no file but the one at its output_path,
\* which it writes once, in its save
C24_TemplateKeptByOtherPaths ==
    /\ [](call = "build_report_pptx" /\ log # <<>> /\ NeverOntoTemplate
            => BuildsAreIndependent)
    /\ [][call = "build_report_pptx" /\ log # <<>> => OnlySaveWrites]_vars

\* the third call, for another candidate, has ended after two full
\* reports: the template is the complete one and the document is the one
\* a first call would have written
C24_Witness ==
    /\ call = "build_report_pptx"
    /\ pc = "done"
    /\ Len(log) = 3
    /\ NeverOntoTemplate
    /\ args.candidate_name = "Grace Hopper"
    /\ files.template = CompleteTemplate
    /\ result.kind = "return"
    /\ files.output = Fresh.files.output
    /\ _safe_shape(files.output.slides[1], "candidate_name").text
         = "Grace Hopper"

(***************************************************************************)
(* C25: _resize_bar changes only the width of the bar and keeps its left   *)
(* edge, _reposition_ball changes only the left position of the marker;    *)
(* neither changes another attribute of the element or another element,    *)
(* and neither does anything when the element is absent.                   *)
(***************************************************************************)
\* the shape new is the shape old but for the attribute attr
DiffersIn(old, new, attr) == [new EXCEPT ![attr] = old[attr]] = old

\* the slide idx of the presentation (counted from 1) has the shapes it had,
\* each changed in nothing but the attribute Attr names for it, and the
\* other slides are as they were
OnlyOnSlide(idx, Attr(_)) ==
    /\ Len(prs') = Len(prs)
    /\ \A i \in 1..Len(prs) :
          IF i # idx THEN prs'[i] = prs[i]
          ELSE /\ Len(prs'[i]) = Len(prs[i])
               /\ \A j \in 1..Len(prs[i]) :
                     LET old == prs[i][j]
                     IN  IF Attr(old) = "" THEN prs'[i][j] = old
                         ELSE DiffersIn(old, prs'[i][j], Attr(old))

\* the attribute of a shape the blocks of slides 5 and 7 may change, "" for
\* none: they call _resize_bar on bars, and slide 7 also _set_text on labels
BarAttr(shape) ==
    IF shape.has_text_frame
    THEN IF pc = "slide7" THEN "text" ELSE ""
    ELSE IF \E n \in 1..Len(name_map) : shape.name = name_map[n][2]
    THEN "width"
    ELSE IF \E n \in 1..Len(ReasoningNames) :
               shape.name = "bar_" \o ReasoningNames[n]
    THEN "width"
    ELSE ""

\* the same for the block of slide 3: _reposition_ball on the four markers
\* when summary_ratings is given, _set_text on the text boxes
BallAttr(shape) ==
    IF shape.has_text_frame THEN "text"
    ELSE IF Truthy(args.summary_ratings)
            /\ \E n \in 1..Len(BallKeys) : shape.name = BallKeys[n][1]
    THEN "left"
    ELSE ""

\* the two helpers on every element tried, present or not, bar or text box
HelpersKeepTheRest ==
    /\ \A shape \in BarShapes, sc \in BarScores, w \in BarWidths :
          LET new == _resize_bar(shape, sc[1], sc[2], w)
          IN  IF shape = PyNone \/ shape.has_text_frame THEN new = shape
              ELSE DiffersIn(shape, new, "width")
    /\ \A ball \in Balls, rating \in 0..MaxInt, track \in Tracks :
          LET new == _reposition_ball(ball, rating, track[1], track[2])
          IN  IF ball = PyNone THEN new = ball
              ELSE DiffersIn(ball, new, "left")

\* an element the block looks up is not on the slide: the block goes on
\* all the same, unless the arguments or the slides make it fail
AbsentIsSkipped ==
    (/\ \E e \in WrittenNames : Lacks(e)
     /\ args.bar_scores \in {PyNone, GoodBarScores}
     /\ args.reasoning_scores \in {PyNone, GoodReasoning})
    => pc' = StepAfter[pc]

C25_HelpersChangeOneAttribute ==
    [][call = "build_report_pptx" /\ pc \in {"slide3", "slide5", "slide7"}
         => /\ HelpersKeepTheRest
            /\ AbsentIsSkipped
            /\ pc' = StepAfter[pc]
                 => IF pc = "slide3" THEN OnlyOnSlide(3, BallAttr)
                    ELSE IF pc = "slide5" THEN OnlyOnSlide(5, BarAttr)
                    ELSE OnlyOnSlide(7, BarAttr)]_vars

\* a build on a template without the bar of people energy has moved the
\* markers and resized the other bars: the first bar has its score's
\* width at the left edge it had, the first marker is at the left bound
C25_Witness ==
    /\ call = "build_report_pptx"
    /\ pc = "save"
    /\ Lacks("bar_people")
    /\ args.bar_scores = GoodBarScores
    /\ Get(args.summary_ratings.items, "Fit for Role", 3) = 1
    /\ LET was == _safe_shape(files.template.slides[5], "bar_purpose")
           bar == _safe_shape(prs[5], "bar_purpose")
           ball == _safe_shape(prs[3], "ball_fit")
       IN  /\ bar.width = ScaledWidth(Inches(550), EightScores[1], 500)
           /\ bar.width # was.width
           /\ bar.left = was.left
           /\ ball.left = Inches(120)
           /\ ball.left
                # _safe_shape(files.template.slides[3], "ball_fit").left
           /\ _safe_shape(prs[5], "bar_people") = PyNone
           /\ Len(prs[5]) = Len(files.template.slides[5])

=============================================================================
